---- MODULE Spec2Model ----
(***************************************************************************)
(* Virtual-time core of kikosim: the round-based TimeService               *)
(* (templates/timeservice_agent.py) and the Resource Agent                 *)
(* (templates/resource_agent.py).                                          *)
(*                                                                         *)
(* Virtual times are floats counting days in the source; here they are     *)
(* integers counting tenths of a day.  Agent names and round correlators   *)
(* are strings in the source; here a string is the sequence of its         *)
(* '_'-separated fields, so that "round_3_RA_Packer_Buyer_1" is            *)
(* <<"round","3","RA","Packer","Buyer","1">> and str.split('_') is the     *)
(* identity on that representation.                                        *)
(***************************************************************************)
EXTENDS Integers, Sequences, FiniteSets, Bags, TLC

\* ------------------------------------------------------------------ bounds
\* Largest value of the --max-rounds argument that is explored.
MaxRounds == 3
\* Largest next_time a participant puts into a Hold.
MaxTime == 1
\* Largest now of a TimeUpdate delivered to the Resource Agent.
MaxNow == 2
\* Number of GiveTask messages a principal sends to the Resource Agent.
MaxTasks == 2
\* Largest duration carried by a GiveTask.
MaxDuration == 1
\* Number of TimeUpdate messages delivered to the Resource Agent.
MaxTicks == 3
\* Number of self-reminders of the Resource Agent that may be in flight when
\* a TimeUpdate arrives.
MaxPending == 1
\* Largest number of Resource Agents in the pool of a principal.
MaxPool == 2
\* Number of messages that reach the deferred handler of the principal.
MaxInbound == 3
\* Largest number of characters of the mean and of the standard deviation of
\* a duration string, units apart.
MaxMeanDigits == 1
MaxStdDigits == 2
\* Execute and configuration requests the backend handles
MaxRequests == 2

\* ------------------------------------------------------------- agent names
Buyer == <<"Buyer">>
RA_Packer == <<"RA", "Packer", "Buyer", "1">>
TimeService == <<"TimeService">>
\* The agents that play role "Agent" towards the TimeService
AgentNames == {Buyer, RA_Packer}

\* agent.startswith('RA_')
IsResourceAgent(agent) == Len(agent) >= 2 /\ agent[1] = "RA"

\* ---------------------------------------------------------------- strings
Numerals == <<"0", "1", "2", "3", "4", "5", "6", "7", "8", "9">>

\* str(n) inside an f-string, for the one-digit numbers the model uses
ToStr(n) == Numerals[n + 1]

\* int(s): the value, or a ValueError
ParseInt(s) ==
    IF \E i \in 1..Len(Numerals) : Numerals[i] = s
    THEN [ok |-> TRUE, val |-> (CHOOSE i \in 1..Len(Numerals) : Numerals[i] = s) - 1]
    ELSE [ok |-> FALSE, val |-> 0]

\* A correlator that numbers the rounds from 0
UniqueRoundIdFromZero(round_id, agent_name) ==
    <<"round", ToStr(round_id - 1)>> \o agent_name

\* f"round_{round_id}_{agent_name}"
UniqueRoundId(round_id, agent_name) == <<"round", ToStr(round_id)>> \o agent_name

\* int(round_id_str.split('_')[1]), failing with IndexError or ValueError
ParseRoundId(round_id_str) ==
    IF Len(round_id_str) >= 2 THEN ParseInt(round_id_str[2]) ELSE [ok |-> FALSE, val |-> 0]

\* ------------------------------------------------------------------- maps
EmptyMap == [k \in {} |-> 0]
MapPut(m, k, v) == [x \in DOMAIN m \cup {k} |-> IF x = k THEN v ELSE m[x]]
\* d.get(k, set())
GetSet(d, k) == IF k \in DOMAIN d THEN d[k] ELSE {}
Min(S) == CHOOSE x \in S : \A y \in S : x <= y
Max2(a, b) == IF a >= b THEN a ELSE b

VARIABLES
    \* ---- TimeService process
    ts_status,               \* "init" before main() runs, "running", "terminated"
    max_rounds,              \* the --max-rounds argument
    system_agents,           \* names playing role "Agent" in the TimeService system
    agent_config,            \* names the agent directory has an endpoint for
    virtual_time,
    round_number,
    participating_agents,
    round_agent_next_times,
    round_responses,
    agent_last_response,
    broadcasts,              \* activations of send_time_updates that have not returned
    monitors,                \* round -> number of sleeping monitor_round_timeout tasks
    sent,                    \* TimeUpdate messages handed to the transport
    final_log,               \* the "Final state" records that were logged
    \* ---- Resource Agent process (adapter.name = RA_Packer)
    current_virtual_time,
    current_task,
    task_queue,
    reminders,               \* Reminder messages sent to itself and not yet handled
    completions,             \* CompleteTask messages sent to the principal, in order
    replies,                 \* Hold and Passivate messages sent to the TimeService (a bag)
    ra_log,                  \* task events logged, in order
    given,                   \* number of GiveTask messages delivered
    ticks,                   \* number of TimeUpdate messages delivered
    delivered,               \* TimeUpdate messages of the TimeService it has handled
    \* ---- a principal with its pool of Resource Agents
    resource_pool,           \* the pool of the principal: system ids, in order
    strategy,                \* "round_robin" or "random"
    rr_cursor,               \* number of round_robin picks made from the pool
    inbound,                 \* number of messages the deferred handler was invoked with
    suspended,               \* task id -> message of the suspended invocation
    give_tasks,              \* GiveTask messages sent by the principal, in order
    pool_inbox,              \* GiveTask messages in flight
    pool_ras,                \* system id -> queue and current task of that agent
    pool_done,               \* completions: task, start time, completion time
    pool_now,                \* now of the TimeUpdates of the current round
    pool_round,              \* number of rounds broadcast to the pool
    pool_unticked,           \* agents the TimeUpdate of the round has not reached
    resumed,                 \* messages whose handler body has run, in order
    \* ---- the backend
    task_settings,           \* TASK_SETTINGS of a configuration request
    validation,              \* what validate_task_settings returned for it
    runs_store,              \* run id -> status of the run
    running_tasks,           \* run ids with a background task on record
    allocated_ports,
    run_port_ranges,         \* run id -> port_allocation
    active_connections,      \* WebSockets of connected clients
    gone,                    \* WebSockets whose client has gone away
    tasks,                   \* the run_simulation_background tasks created
    suspended_requests,      \* requests suspended in update_run_status
    http_responses,          \* responses sent
    handled                  \* number of execute and configuration requests

tsvars == <<ts_status, max_rounds, system_agents, agent_config, virtual_time,
            round_number, participating_agents, round_agent_next_times,
            round_responses, agent_last_response, broadcasts, monitors, sent,
            final_log>>

ravars == <<current_virtual_time, current_task, task_queue, reminders, completions,
            replies, ra_log, given, ticks, delivered>>

poolvars == <<resource_pool, strategy, rr_cursor, inbound, suspended, give_tasks,
              pool_inbox, pool_ras, pool_done, pool_now, pool_round, pool_unticked,
              resumed>>

servicevars == <<runs_store, running_tasks, allocated_ports, run_port_ranges,
                 active_connections, gone, tasks, suspended_requests, http_responses,
                 handled>>

backendvars == <<task_settings, validation, servicevars>>

vars == <<tsvars, ravars, poolvars, backendvars>>

\* Round numbers: round_number never exceeds max_rounds
Rounds == 0..(MaxRounds + 1)

\* ============================================================ TimeService

\* Module state of timeservice_agent.py after import, with the configuration
\* and the command line the process was started with.
InitTS ==
    /\ ts_status = "init"
    /\ max_rounds \in 0..MaxRounds
    /\ system_agents \in SUBSET AgentNames
    /\ agent_config \in {AgentNames \cup {TimeService}} \cup
                        {(AgentNames \cup {TimeService}) \ {a} : a \in AgentNames}
    /\ virtual_time = 0
    /\ round_number = 0
    /\ participating_agents = {}
    /\ round_agent_next_times = EmptyMap
    /\ round_responses = EmptyMap
    /\ agent_last_response = EmptyMap
    /\ broadcasts = {}
    /\ monitors = [r \in Rounds |-> 0]
    /\ sent = {}
    /\ final_log = <<>>

\* log_final_state: the record it writes
FinalStateRecord == [round |-> round_number, virtual_time |-> virtual_time]

\* The maximum number of rounds exceeded, not merely reached
ExceededMaxRounds == round_number > max_rounds

\* advance_virtual_time: have the maximum number of rounds been reached?
ReachedMaxRounds == round_number >= max_rounds

\* The next virtual time from the latest, not the earliest, request
NextVirtualTimeLatest(nt) ==
    IF DOMAIN nt # {}
    THEN Max2(virtual_time, CHOOSE x \in {nt[a] : a \in DOMAIN nt} :
                                \A y \in {nt[a] : a \in DOMAIN nt} : x >= y)
    ELSE virtual_time

\* A round without any Hold restarts the clock
NextVirtualTimeRestart(nt) ==
    IF DOMAIN nt # {}
    THEN Max2(virtual_time, Min({nt[a] : a \in DOMAIN nt}))
    ELSE 0

\* The next virtual time without the clamp to the current one
NextVirtualTimeUnclamped(nt) ==
    IF DOMAIN nt # {} THEN Min({nt[a] : a \in DOMAIN nt}) ELSE virtual_time

\* advance_virtual_time: the next virtual time from the next_time values
\* collected in the completed round
NextVirtualTime(nt) ==
    IF DOMAIN nt # {}
    THEN Max2(virtual_time, Min({nt[a] : a \in DOMAIN nt}))
    ELSE virtual_time

\* advance_virtual_time, entered with the given values of
\* round_agent_next_times, round_responses and participating_agents, up to its
\* first suspension inside send_time_updates.
advance_virtual_time(nt, rr, pa) ==
    IF ReachedMaxRounds
    THEN \* log_final_state, then SIGTERM to itself: signal_handler logs the
         \* final state and exits, and the finally clause logs it once more
         /\ final_log' = final_log \o <<FinalStateRecord, FinalStateRecord, FinalStateRecord>>
         /\ ts_status' = "terminated"
         /\ round_agent_next_times' = nt
         /\ round_responses' = rr
         /\ participating_agents' = pa
         /\ UNCHANGED <<virtual_time, round_number, broadcasts>>
    ELSE LET next_virtual_time == NextVirtualTime(nt)
             new_round == round_number + 1
         IN  /\ virtual_time' = next_virtual_time
             /\ round_number' = new_round
             /\ round_agent_next_times' = EmptyMap
             /\ round_responses' = MapPut(rr, new_round, {})
             /\ participating_agents' = pa
             /\ broadcasts' = broadcasts \cup
                    {[round_id |-> new_round,
                      new_time |-> next_virtual_time,
                      agent_list |-> pa,
                      business_agents |-> {a \in pa : ~IsResourceAgent(a)},
                      resource_agents |-> {a \in pa : IsResourceAgent(a)},
                      phase |-> 1]}
             /\ ts_status' = "running"
             /\ UNCHANGED final_log

\* main -> start_coordination: enumerate the participants, open the first round
start_coordination ==
    /\ ts_status = "init"
    /\ advance_virtual_time(round_agent_next_times, round_responses,
                            participating_agents \cup system_agents)
    /\ UNCHANGED <<max_rounds, system_agents, agent_config, agent_last_response,
                   monitors, sent>>
    /\ UNCHANGED <<ravars, poolvars, backendvars>>

\* One iteration of a send loop of send_time_updates for agent_name: the
\* TimeUpdate is sent if the directory has an endpoint, else an error is logged.
SendTimeUpdate(b, agent_name) ==
    IF agent_name \in agent_config
    THEN sent \cup {[roundId |-> UniqueRoundId(b.round_id, agent_name),
                     now |-> b.new_time,
                     dest |-> agent_name]}
    ELSE sent

\* send_time_updates, phase 1: the next business agent of the shuffled list
send_business_update(b, agent_name) ==
    /\ ts_status = "running"
    /\ b \in broadcasts
    /\ b.phase = 1
    /\ agent_name \in b.business_agents
    /\ sent' = SendTimeUpdate(b, agent_name)
    /\ broadcasts' = (broadcasts \ {b}) \cup
           {[b EXCEPT !.business_agents = b.business_agents \ {agent_name}]}
    /\ UNCHANGED <<ts_status, max_rounds, system_agents, agent_config, virtual_time,
                   round_number, participating_agents, round_agent_next_times,
                   round_responses, agent_last_response, monitors, final_log>>
    /\ UNCHANGED <<ravars, poolvars, backendvars>>

\* The first send loop may be left at any time
BusinessLoopBegun(b) == b.phase = 1

\* send_time_updates: the loop over business_agents has run to its end
BusinessLoopDone(b) == b.business_agents = {}

\* send_time_updates: asyncio.sleep(phase_delay) between the two phases
phase_delay(b) ==
    /\ ts_status = "running"
    /\ b \in broadcasts
    /\ b.phase = 1
    /\ BusinessLoopDone(b)
    /\ broadcasts' = (broadcasts \ {b}) \cup {[b EXCEPT !.phase = 2]}
    /\ UNCHANGED <<ts_status, max_rounds, system_agents, agent_config, virtual_time,
                   round_number, participating_agents, round_agent_next_times,
                   round_responses, agent_last_response, monitors, sent, final_log>>
    /\ UNCHANGED <<ravars, poolvars, backendvars>>

\* send_time_updates, phase 2: the next resource agent of the shuffled list
send_resource_update(b, agent_name) ==
    /\ ts_status = "running"
    /\ b \in broadcasts
    /\ b.phase = 2
    /\ agent_name \in b.resource_agents
    /\ sent' = SendTimeUpdate(b, agent_name)
    /\ broadcasts' = (broadcasts \ {b}) \cup
           {[b EXCEPT !.resource_agents = b.resource_agents \ {agent_name}]}
    /\ UNCHANGED <<ts_status, max_rounds, system_agents, agent_config, virtual_time,
                   round_number, participating_agents, round_agent_next_times,
                   round_responses, agent_last_response, monitors, final_log>>
    /\ UNCHANGED <<ravars, poolvars, backendvars>>

\* The round that was just completed
CompletedRound(b) == round_number - 1

\* The round a monitor is created for when send_time_updates has returned:
\* asyncio.create_task(monitor_round_timeout(round_number)) reads the global.
MonitoredRound(b) == round_number

\* advance_virtual_time after send_time_updates returned: arm the round monitor
start_monitor(b) ==
    /\ ts_status = "running"
    /\ b \in broadcasts
    /\ b.phase = 2
    /\ b.resource_agents = {}
    /\ broadcasts' = broadcasts \ {b}
    /\ monitors' = [monitors EXCEPT ![MonitoredRound(b)] = @ + 1]
    /\ UNCHANGED <<ts_status, max_rounds, system_agents, agent_config, virtual_time,
                   round_number, participating_agents, round_agent_next_times,
                   round_responses, agent_last_response, sent, final_log>>
    /\ UNCHANGED <<ravars, poolvars, backendvars>>

\* A barrier that opens at the first reply
RoundCompleteAtFirstReply(responses, participants) ==
    Cardinality(responses) >= 1

\* len(round_responses[round_id]) == len(participating_agents)
RoundComplete(responses, participants) ==
    Cardinality(responses) = Cardinality(participants)

\* A reply is recorded for any round up to the current one
IsRoundSoFar(round_id) == round_id <= round_number

\* The reply is recorded only for the current round
IsCurrentRound(round_id) == round_id = round_number

\* A reply counts as the first one unless a Hold of the agent is on record
NoHoldOnRecord(agent_name, round_id) == agent_name \notin DOMAIN round_agent_next_times

\* agent_name not in round_responses.get(round_id, set())
IsFirstReply(agent_name, round_id) == agent_name \notin GetSet(round_responses, round_id)

\* handle_hold / handle_passivate after the correlator was parsed; is_hold
\* tells whether next_time is recorded.
HandleReply(agent_name, round_id, is_hold, next_time) ==
    IF IsCurrentRound(round_id)
    THEN IF IsFirstReply(agent_name, round_id)
         THEN LET rr == MapPut(round_responses, round_id,
                               GetSet(round_responses, round_id) \cup {agent_name})
                  nt == IF is_hold
                        THEN MapPut(round_agent_next_times, agent_name, next_time)
                        ELSE round_agent_next_times
              IN  /\ agent_last_response' = MapPut(agent_last_response, agent_name, round_id)
                  /\ IF RoundComplete(rr[round_id], participating_agents)
                     THEN advance_virtual_time(nt, rr, participating_agents)
                     ELSE /\ round_responses' = rr
                          /\ round_agent_next_times' = nt
                          /\ UNCHANGED <<ts_status, virtual_time, round_number,
                                         participating_agents, broadcasts, final_log>>
                  /\ UNCHANGED <<max_rounds, system_agents, agent_config, monitors, sent>>
         ELSE UNCHANGED tsvars      \* duplicate: warning only
    ELSE UNCHANGED tsvars           \* stale: warning only

\* @adapter.reaction(Hold)
handle_hold(msg) ==
    /\ ts_status = "running"
    /\ LET round_id == ParseRoundId(msg.roundId)
       IN  IF ~round_id.ok
           THEN UNCHANGED tsvars    \* invalid round id format: warning only
           ELSE HandleReply(msg.agentName, round_id.val, TRUE, msg.nextTime)
    /\ UNCHANGED <<ravars, poolvars, backendvars>>

\* @adapter.reaction(Passivate)
handle_passivate(msg) ==
    /\ ts_status = "running"
    /\ LET round_id == ParseRoundId(msg.roundId)
       IN  IF ~round_id.ok
           THEN UNCHANGED tsvars
           ELSE HandleReply(msg.agentName, round_id.val, FALSE, 0)
    /\ UNCHANGED <<ravars, poolvars, backendvars>>

\* A round timeout that evicts nobody
NobodyEvicted(responding_agents) == participating_agents

\* A round timeout that lets the agents evicted earlier return
SurvivorsAndReturners(responding_agents) ==
    responding_agents \cup (system_agents \ participating_agents)

\* The participants that survive a round timeout
Survivors(responding_agents) == responding_agents

\* monitor_round_timeout(expected_round_id) waking up after ROUND_TIMEOUT
monitor_round_timeout(expected_round_id) ==
    /\ ts_status = "running"
    /\ monitors[expected_round_id] > 0
    /\ monitors' = [monitors EXCEPT ![expected_round_id] = @ - 1]
    /\ IF round_number = expected_round_id
       THEN LET responding_agents == GetSet(round_responses, expected_round_id)
                survivors == Survivors(responding_agents)
            IN  IF survivors # {}
                THEN advance_virtual_time(round_agent_next_times, round_responses, survivors)
                ELSE \* all agents dead: SIGTERM to itself; signal_handler logs the
                     \* final state and exits, the finally clause logs it again
                     /\ participating_agents' = survivors
                     /\ ts_status' = "terminated"
                     /\ final_log' = final_log \o <<FinalStateRecord, FinalStateRecord>>
                     /\ UNCHANGED <<virtual_time, round_number, round_agent_next_times,
                                    round_responses, broadcasts>>
       ELSE UNCHANGED <<ts_status, virtual_time, round_number, participating_agents,
                        round_agent_next_times, round_responses, broadcasts, final_log>>
    /\ UNCHANGED <<max_rounds, system_agents, agent_config, agent_last_response, sent>>
    /\ UNCHANGED <<ravars, poolvars, backendvars>>

\* Replies of participants: a participant answers a TimeUpdate it was sent with
\* its own name and the correlator of that TimeUpdate; the transport may delay,
\* reorder and duplicate the reply.
HoldReplies ==
    {[roundId |-> tu.roundId, agentName |-> tu.dest, nextTime |-> n] :
        tu \in sent, n \in 0..MaxTime}
PassivateReplies ==
    {[roundId |-> tu.roundId, agentName |-> tu.dest] : tu \in sent}

\* ======================================================== Resource Agent

\* current_task = None
None == [task_id |-> 0]

\* The duration field of a GiveTask: a duration spec that sample_duration
\* realizes, or one it rejects
DurationSpecs ==
    {[valid |-> FALSE, value |-> 0]} \cup {[valid |-> TRUE, value |-> v] : v \in 0..MaxDuration}

\* sample_duration(msg["duration"]) with the float() fallback of handle_task:
\* the realized duration, or a failure of both
ParseDuration(spec) ==
    IF spec.valid THEN [ok |-> TRUE, val |-> spec.value] ELSE [ok |-> FALSE, val |-> 0]

\* Module state of resource_agent.py after import
InitRA ==
    /\ current_virtual_time = 0
    /\ current_task = None
    /\ task_queue = <<>>
    /\ reminders = {}
    /\ completions = <<>>
    /\ replies = EmptyBag
    /\ ra_log = <<>>
    /\ given = 0
    /\ ticks = 0
    /\ delivered = {}

\* The principal of the Resource Agent: parts[2] of its name
PrincipalName(agent_name) ==
    IF Len(agent_name) >= 3 THEN <<agent_name[3]>> ELSE <<"Unknown">>

\* Log events carry the virtual time the logger was last told; detail is the
\* duration of a TASK_QUEUED and the completion time of a TASK_STARTED event
LogEvent(kind, task_id, vt, detail) ==
    [event |-> kind, task_id |-> task_id, virtual_time |-> vt, detail |-> detail]

\* A test that lets a zero duration pass
IsNotNegative(duration) == duration >= 0

\* not (duration <= 0)
IsPositive(duration) == duration > 0

\* A queue that takes the new task at its head
EnqueueFirst(queue, task_info) == <<task_info>> \o queue

\* task_queue.append(task_info)
Enqueue(queue, task_info) == Append(queue, task_info)

\* @adapter.reaction(GiveTask)
handle_task(msg) ==
    /\ LET duration == ParseDuration(msg.duration)
       IN  IF ~duration.ok
           THEN UNCHANGED <<task_queue, ra_log>>     \* could not parse: error logged
           ELSE IF ~IsPositive(duration.val)
           THEN UNCHANGED <<task_queue, ra_log>>     \* must be positive: error logged
           ELSE /\ task_queue' = Enqueue(task_queue,
                       [task_id |-> msg.taskID, duration |-> duration.val, id |-> msg.id,
                        task_type |-> msg.taskType])
                /\ ra_log' = Append(ra_log, LogEvent("TASK_QUEUED", msg.taskID, current_virtual_time, duration.val))
    /\ UNCHANGED <<current_virtual_time, current_task, reminders, completions, replies>>

\* A completion that sends nothing to the principal
KeepOutbox(outbox, task_info) == outbox

\* A completion that is sent without a resolved destination
SendUnaddressed(outbox, task_info) ==
    Append(outbox, [type |-> "CompleteTask", taskID |-> task_info.task_id,
                    id |-> task_info.id, taskType |-> task_info.task_type,
                    dest |-> "Unknown"])

\* complete_task(task_info) at virtual time now: the messages and log events
\* it adds.
CompleteOutbox(outbox, task_info) ==
    IF PrincipalName(RA_Packer) \in agent_config
    THEN Append(outbox, [type |-> "CompleteTask", taskID |-> task_info.task_id,
                         id |-> task_info.id, taskType |-> task_info.task_type,
                         dest |-> PrincipalName(RA_Packer)])
    ELSE outbox
CompleteLog(log, task_info, now) ==
    IF PrincipalName(RA_Packer) \in agent_config
    THEN Append(log, LogEvent("TASK_COMPLETED", task_info.task_id, now, 0))
    ELSE Append(log, LogEvent("COMPLETE_ERROR", task_info.task_id, now, 0))

\* A test that lets a task run on at its completion time
TaskOverdue(task, now) == task # None /\ now > task.completion_time

\* handle_time_update, step 1: is the current task due?
TaskDue(task, now) == task # None /\ now >= task.completion_time

\* A start that does not wait for the task in progress
MayStartWhileBusy(task, queue) == queue # <<>>

\* A start only for an agent that was already idle when the TimeUpdate came
MayStartIfWasIdle(task, queue) == current_task = None /\ queue # <<>>

\* handle_time_update, step 2: may the next task be started?
MayStart(task, queue) == task = None /\ queue # <<>>

\* A pop from the wrong end of the queue
LastTask(queue) == queue[Len(queue)]

\* A queue that keeps the task that was taken from it
KeepQueue(queue) == queue

\* task_queue.pop(0)
NextTask(queue) == Head(queue)
RestQueue(queue) == Tail(queue)

\* A completion time that forgets the duration
CompletionTimeNow(now, duration) == now

\* completion_time = current_virtual_time + next_task['duration']
CompletionTime(now, duration) == now + duration

\* send_self_reminder: the Reminder goes to the agent's own endpoint
send_self_reminder(pending, round_id) ==
    IF RA_Packer \in agent_config THEN pending \cup {round_id} ELSE pending

\* send_hold: Hold(roundId, agentName, nextTime) to the TimeService endpoint
send_hold(outbox, round_id, next_time) ==
    IF TimeService \in agent_config
    THEN outbox (+) SetToBag({[type |-> "Hold", roundId |-> round_id,
                              agentName |-> RA_Packer, nextTime |-> next_time]})
    ELSE outbox

\* An idle agent that stays silent
send_nothing(outbox, round_id) == outbox

\* send_passivate: Passivate(roundId, agentName) to the TimeService endpoint
send_passivate(outbox, round_id) ==
    IF TimeService \in agent_config
    THEN outbox (+) SetToBag({[type |-> "Passivate", roundId |-> round_id,
                              agentName |-> RA_Packer]})
    ELSE outbox

\* @adapter.reaction(TimeUpdate)
handle_time_update(msg) ==
    LET round_id == msg.roundId
        now == msg.now
        \* 1. complete the current task if ready
        due == TaskDue(current_task, now)
        task1 == IF due THEN None ELSE current_task
        out1 == IF due THEN CompleteOutbox(completions, current_task) ELSE completions
        log1 == IF due THEN CompleteLog(ra_log, current_task, now) ELSE ra_log
        \* 2. start the next task if idle and the queue is not empty
        start == MayStart(task1, task_queue)
        next_task == NextTask(task_queue)
        completion_time == CompletionTime(now, next_task.duration)
        started == [task_id |-> next_task.task_id, completion_time |-> completion_time,
                    id |-> next_task.id, task_type |-> next_task.task_type]
        immediate == start /\ completion_time <= now
        log2 == IF start THEN Append(log1, LogEvent("TASK_STARTED", next_task.task_id, now,
                                                   completion_time))
                ELSE log1
    IN  /\ current_virtual_time' = now
        /\ task_queue' = IF start THEN RestQueue(task_queue) ELSE task_queue
        /\ current_task' = IF start THEN (IF immediate THEN None ELSE started) ELSE task1
        /\ completions' = IF immediate THEN CompleteOutbox(out1, started) ELSE out1
        /\ ra_log' = IF immediate THEN CompleteLog(log2, started, now) ELSE log2
        \* 3. send_self_reminder(round_id)
        /\ reminders' = send_self_reminder(reminders, round_id)
        /\ UNCHANGED replies

\* Emergency fallback of handle_reminder: current_virtual_time + 0.1
EmergencyDelta == 1

\* A Hold that always asks for the emergency fallback time
HoldTimeFallback(task, now) == now + EmergencyDelta

\* next_time of the Hold that handle_reminder sends
HoldTime(task, now) ==
    IF task.completion_time <= now THEN now + EmergencyDelta ELSE task.completion_time

\* @adapter.reaction(Reminder)
handle_reminder(round_id) ==
    /\ round_id \in reminders
    /\ reminders' = reminders \ {round_id}
    /\ replies' =
           IF current_task # None
           THEN send_hold(replies, round_id, HoldTime(current_task, current_virtual_time))
           ELSE send_passivate(replies, round_id)
    /\ UNCHANGED <<current_virtual_time, current_task, task_queue, completions, ra_log>>

\* No principal dispatches to a pool
IdlePool ==
    /\ resource_pool = <<>>
    /\ strategy = "round_robin"
    /\ rr_cursor = 0
    /\ inbound = 0
    /\ suspended = EmptyMap
    /\ give_tasks = <<>>
    /\ pool_inbox = {}
    /\ pool_ras = EmptyMap
    /\ pool_done = {}
    /\ pool_now = 0
    /\ pool_round = 0
    /\ pool_unticked = {}
    /\ resumed = <<>>

\* The backend has no request at hand
IdleBackend ==
    /\ task_settings = [type |-> "NoneType", text |-> <<>>, number |-> 0, items |-> <<>>]
    /\ validation = [is_valid |-> FALSE, errors |-> <<>>, calls |-> <<>>, done |-> FALSE]
    /\ runs_store = EmptyMap
    /\ running_tasks = {}
    /\ allocated_ports = {}
    /\ run_port_ranges = EmptyMap
    /\ active_connections = {}
    /\ gone = {}
    /\ tasks = {}
    /\ suspended_requests = {}
    /\ http_responses = {}
    /\ handled = 0

\* ------------------------------------------------ the RA and its environment
\* The principal sends GiveTask messages with fresh task ids; the TimeService
\* sends one TimeUpdate per round, with whatever value of now, and waits for
\* the reply or the round timeout before the next, so that few self-reminders
\* are in flight at a time.
GiveTaskMessages ==
    {[taskID |-> given + 1, id |-> "case", taskType |-> "Packer", duration |-> d] :
        d \in DurationSpecs}
TimeUpdateMessages ==
    {[roundId |-> UniqueRoundId(ticks + 1, RA_Packer), now |-> t] : t \in 0..MaxNow}

GiveTask ==
    /\ given < MaxTasks
    /\ given' = given + 1
    /\ \E msg \in GiveTaskMessages : handle_task(msg)
    /\ UNCHANGED <<tsvars, poolvars, backendvars, ticks, delivered>>

TimeUpdate ==
    /\ ticks < MaxTicks
    /\ Cardinality(reminders) < MaxPending
    /\ ticks' = ticks + 1
    /\ \E msg \in TimeUpdateMessages : handle_time_update(msg)
    /\ UNCHANGED <<tsvars, poolvars, backendvars, given, delivered>>

Reminder ==
    /\ \E round_id \in reminders : handle_reminder(round_id)
    /\ UNCHANGED <<tsvars, poolvars, backendvars, given, ticks, delivered>>

NextRA == GiveTask \/ TimeUpdate \/ Reminder

\* The TimeService before it starts, with the agent directory of the run
IdleTS ==
    /\ InitTS
    /\ max_rounds = MaxRounds
    /\ system_agents = AgentNames
    /\ agent_config \in {AgentNames \cup {TimeService},
                         (AgentNames \cup {TimeService}) \ {PrincipalName(RA_Packer)}}

\* The Resource Agent started, the TimeService not yet
InitIdle == IdleTS /\ InitRA /\ IdlePool /\ IdleBackend

SpecRA == InitIdle /\ [][NextRA]_vars

\* ------------------------------------ the TimeService and its environment

Next ==
    \/ start_coordination
    \/ \E b \in broadcasts : \E a \in b.business_agents : send_business_update(b, a)
    \/ \E b \in broadcasts : phase_delay(b)
    \/ \E b \in broadcasts : \E a \in b.resource_agents : send_resource_update(b, a)
    \/ \E b \in broadcasts : start_monitor(b)
    \/ \E msg \in HoldReplies : handle_hold(msg)
    \/ \E msg \in PassivateReplies : handle_passivate(msg)
    \/ \E r \in Rounds : monitor_round_timeout(r)

\* Both processes started
Init == InitTS /\ InitRA /\ IdlePool /\ IdleBackend

Spec == Init /\ [][Next]_vars

\* The event loop runs every coroutine that is ready and every timer that
\* expired: startup, the steps of a broadcast, and the round monitors.  No
\* participant is obliged to reply.
Scheduled ==
    \/ start_coordination
    \/ \E b \in broadcasts : \E a \in b.business_agents : send_business_update(b, a)
    \/ \E b \in broadcasts : phase_delay(b)
    \/ \E b \in broadcasts : \E a \in b.resource_agents : send_resource_update(b, a)
    \/ \E b \in broadcasts : start_monitor(b)
    \/ \E r \in Rounds : monitor_round_timeout(r)

FairSpec == Spec /\ WF_vars(Scheduled)

\* ------------------------------ the TimeService and malformed correlators
\* Correlators that are not of the form round_<R>_<agent_name>, made from the
\* correlator of a TimeUpdate: another prefix ("tick_1_Buyer"), no agent name
\* ("round_1"), no round field ("round"), a round that is no integer
\* ("round_x_Buyer").
Malformed(round_id) ==
    { <<"tick">> \o Tail(round_id),
      SubSeq(round_id, 1, 2),
      <<"round">>,
      <<"round", "x">> \o SubSeq(round_id, 3, Len(round_id)) }

\* Replies of participants that carry a malformed correlator
MalformedHolds ==
    {[roundId |-> id, agentName |-> m.agentName, nextTime |-> m.nextTime] :
        m \in HoldReplies, id \in UNION {Malformed(tu.roundId) : tu \in sent}}
MalformedPassivates ==
    {[roundId |-> id, agentName |-> m.agentName] :
        m \in PassivateReplies, id \in UNION {Malformed(tu.roundId) : tu \in sent}}

NextLoose ==
    \/ Next
    \/ \E msg \in MalformedHolds : handle_hold(msg)
    \/ \E msg \in MalformedPassivates : handle_passivate(msg)

SpecLoose == Init /\ [][NextLoose]_vars

\* ------------------------- the TimeService and the Resource Agent together
\* The transport hands the Resource Agent each TimeUpdate addressed to it
\* once, after any delay.
DeliverTimeUpdate ==
    /\ \E tu \in sent :
           /\ tu.dest = RA_Packer
           /\ tu \notin delivered
           /\ delivered' = delivered \cup {tu}
           /\ handle_time_update([roundId |-> tu.roundId, now |-> tu.now])
    /\ ticks' = ticks + 1
    /\ UNCHANGED <<tsvars, poolvars, backendvars, given>>

\* The principal hands the Resource Agent its tasks, each of the longest
\* duration, before the TimeService opens the first round.
DispatchTask ==
    /\ ts_status = "init"
    /\ given < MaxTasks - 1
    /\ given' = given + 1
    /\ \E msg \in GiveTaskMessages :
           /\ msg.duration = [valid |-> TRUE, value |-> MaxDuration]
           /\ handle_task(msg)
    /\ UNCHANGED <<tsvars, poolvars, backendvars, ticks, delivered>>

\* A run of both processes: all agents enumerated and addressable.
InitSys ==
    /\ InitTS
    /\ InitRA
    /\ max_rounds = MaxRounds
    /\ system_agents = AgentNames
    /\ agent_config = AgentNames \cup {TimeService}
    /\ IdlePool
    /\ IdleBackend

\* The replies the TimeService may receive: those the Resource Agent sent,
\* and those of the business agent to the TimeUpdates it was sent.
HoldsInFlight ==
    {[roundId |-> m.roundId, agentName |-> m.agentName, nextTime |-> m.nextTime] :
        m \in {r \in BagToSet(replies) : r.type = "Hold"}}
        \cup {m \in HoldReplies : m.agentName # RA_Packer}
PassivatesInFlight ==
    {[roundId |-> m.roundId, agentName |-> m.agentName] :
        m \in {r \in BagToSet(replies) : r.type = "Passivate"}}
        \cup {m \in PassivateReplies : m.agentName # RA_Packer}

NextSys ==
    \/ start_coordination
    \/ \E b \in broadcasts : \E a \in b.business_agents : send_business_update(b, a)
    \/ \E b \in broadcasts : phase_delay(b)
    \/ \E b \in broadcasts : \E a \in b.resource_agents : send_resource_update(b, a)
    \/ \E b \in broadcasts : start_monitor(b)
    \/ \E msg \in HoldsInFlight : handle_hold(msg)
    \/ \E msg \in PassivatesInFlight : handle_passivate(msg)
    \/ \E r \in Rounds : monitor_round_timeout(r)
    \/ DispatchTask
    \/ DeliverTimeUpdate
    \/ Reminder

SpecSys == InitSys /\ [][NextSys]_vars

\* ------------------------------------- the transport duplicates TimeUpdates
\* A TimeUpdate that the Resource Agent has handled arrives once more, at any
\* later time, after the Reminder of the earlier copy was handled.
RedeliverTimeUpdate ==
    /\ ticks < MaxTicks
    /\ \E tu \in delivered :
           /\ tu.roundId \notin reminders
           /\ handle_time_update([roundId |-> tu.roundId, now |-> tu.now])
    /\ ticks' = ticks + 1
    /\ UNCHANGED <<tsvars, poolvars, backendvars, given, delivered>>

NextDup == NextSys \/ RedeliverTimeUpdate

SpecDup == InitSys /\ [][NextDup]_vars

\* The event loops of both processes run every handler that is ready: the
\* TimeService as above, the Resource Agent its TimeUpdates and Reminders.
ScheduledSys == Scheduled \/ DeliverTimeUpdate \/ Reminder

FairSys == SpecSys /\ WF_vars(ScheduledSys)

\* ------------------------------ a business agent that asks for a late time
\* The business agent answers every TimeUpdate with a Passivate or with a
\* Hold for a time later than any completion time of the first task.
LateTime == MaxTime + 1
LateHolds ==
    {[roundId |-> tu.roundId, agentName |-> tu.dest, nextTime |-> LateTime] :
        tu \in {m \in sent : m.dest # RA_Packer}}
HoldsOfBoth ==
    {[roundId |-> m.roundId, agentName |-> m.agentName, nextTime |-> m.nextTime] :
        m \in {r \in BagToSet(replies) : r.type = "Hold"}} \cup LateHolds

NextLate ==
    \/ start_coordination
    \/ \E b \in broadcasts : \E a \in b.business_agents : send_business_update(b, a)
    \/ \E b \in broadcasts : phase_delay(b)
    \/ \E b \in broadcasts : \E a \in b.resource_agents : send_resource_update(b, a)
    \/ \E b \in broadcasts : start_monitor(b)
    \/ \E msg \in HoldsOfBoth : handle_hold(msg)
    \/ \E msg \in PassivatesInFlight : handle_passivate(msg)
    \/ \E r \in Rounds : monitor_round_timeout(r)
    \/ DispatchTask
    \/ DeliverTimeUpdate
    \/ Reminder

SpecLate == InitSys /\ [][NextLate]_vars

\* ============================== a principal and its pool of Resource Agents
\* The principal Buyer runs one deferred handler, routed to task type Packer
\* with a fixed duration; its pool holds count Resource Agents.

\* allocate_system_ids: the pool of one principal and agent type is
\* list(range(system_counter, system_counter + count)), system_counter = 1
allocate_system_ids(count) == [i \in 1..count |-> i]

\* value.get("strategy", "round_robin")
Strategies == {"round_robin", "random"}

SystemIds == {resource_pool[i] : i \in 1..Len(resource_pool)}

\* The name _transform_function hands to deferred_reaction with the handler
\* it wraps: @deferred_reaction(adapter.reaction(Order), "handle_order")
DeferredHandler == "handle_order"

\* A cursor that is not moved on
FirstIndex(cursor, size) == 0

\* round_robin: next index mod pool size
NextIndex(cursor, size) == cursor % size

\* The agents the strategy may pick for the next GiveTask
Targets ==
    IF strategy = "round_robin"
    THEN {resource_pool[NextIndex(rr_cursor, Len(resource_pool)) + 1]}
    ELSE SystemIds

\* A continuation that stays keyed after it has run
KeepSuspended(pending, task_id) == pending

\* The suspended invocations without that of task_id
Forget(pending, task_id) == [t \in DOMAIN pending \ {task_id} |-> pending[t]]

\* The agents of the pool idle, the first round at virtual time 0 under way
InitPool ==
    /\ InitTS
    /\ InitRA
    /\ max_rounds = MaxRounds
    /\ system_agents = AgentNames
    /\ agent_config = AgentNames \cup {TimeService}
    /\ \E count \in 1..MaxPool : resource_pool = allocate_system_ids(count)
    /\ strategy \in Strategies
    /\ rr_cursor = 0
    /\ inbound = 0
    /\ suspended = EmptyMap
    /\ give_tasks = <<>>
    /\ pool_inbox = {}
    /\ pool_ras = [ra \in SystemIds |-> [queue |-> <<>>, current |-> None]]
    /\ pool_done = {}
    /\ pool_now = 0
    /\ pool_round = 1
    /\ pool_unticked = SystemIds
    /\ resumed = <<>>
    /\ IdleBackend

\* The deferred handler is invoked with a message: pick an agent of the pool
\* by strategy, send it a GiveTask with a fresh task id and the duration of
\* the route, and suspend the invocation keyed on the task id.
Dispatch ==
    /\ inbound < MaxInbound
    /\ LET msg == [seq |-> inbound + 1, handler |-> DeferredHandler]
           task_id == inbound + 1
       IN  /\ \E target \in Targets :
                  LET give == [taskID |-> task_id, target |-> target,
                               duration |-> MaxDuration, msg |-> msg]
                  IN  /\ give_tasks' = Append(give_tasks, give)
                      /\ pool_inbox' = pool_inbox \cup {give}
           /\ suspended' = MapPut(suspended, task_id, msg)
    /\ rr_cursor' = IF strategy = "round_robin" THEN rr_cursor + 1 ELSE rr_cursor
    /\ inbound' = inbound + 1
    /\ UNCHANGED <<resource_pool, strategy, pool_ras, pool_done, pool_now, pool_round,
                   pool_unticked, resumed>>
    /\ UNCHANGED <<tsvars, ravars, backendvars>>

\* handle_task of the agent a GiveTask is addressed to
PoolGiveTask ==
    /\ \E give \in pool_inbox :
           /\ pool_inbox' = pool_inbox \ {give}
           /\ pool_ras' = [pool_ras EXCEPT ![give.target].queue =
                  IF IsPositive(give.duration)
                  THEN Enqueue(@, [task_id |-> give.taskID, duration |-> give.duration])
                  ELSE @]
    /\ UNCHANGED <<resource_pool, strategy, rr_cursor, inbound, suspended, give_tasks,
                   pool_done, pool_now, pool_round, pool_unticked, resumed>>
    /\ UNCHANGED <<tsvars, ravars, backendvars>>

\* handle_time_update of one agent of the pool: complete the current task if
\* it is due, then start the next task if idle; a completion sends the
\* CompleteTask to the principal.
PoolTimeUpdate ==
    /\ \E ra \in pool_unticked :
           LET now == pool_now
               agent == pool_ras[ra]
               due == TaskDue(agent.current, now)
               task1 == IF due THEN None ELSE agent.current
               done1 == IF due
                        THEN {[task_id |-> agent.current.task_id,
                               started |-> agent.current.started, completed |-> now]}
                        ELSE {}
               start == MayStart(task1, agent.queue)
               next_task == NextTask(agent.queue)
               completion_time == CompletionTime(now, next_task.duration)
               started == [task_id |-> next_task.task_id,
                           completion_time |-> completion_time, started |-> now]
               immediate == start /\ completion_time <= now
               done2 == IF immediate
                        THEN {[task_id |-> next_task.task_id, started |-> now,
                               completed |-> now]}
                        ELSE {}
           IN  /\ pool_ras' = [pool_ras EXCEPT ![ra] =
                      [queue |-> IF start THEN RestQueue(agent.queue) ELSE agent.queue,
                       current |-> IF start THEN (IF immediate THEN None ELSE started)
                                   ELSE task1]]
               /\ pool_done' = pool_done \cup done1 \cup done2
               /\ pool_unticked' = pool_unticked \ {ra}
    /\ UNCHANGED <<resource_pool, strategy, rr_cursor, inbound, suspended, give_tasks,
                   pool_inbox, pool_now, pool_round, resumed>>
    /\ UNCHANGED <<tsvars, ravars, backendvars>>

\* The TimeService opens the next round when every agent has handled the
\* TimeUpdate of the round; its TimeUpdates all carry the same now, not
\* earlier than the last, and reach the agents in the shuffled order.
PoolRound ==
    /\ pool_unticked = {}
    /\ pool_round < MaxTicks
    /\ pool_round' = pool_round + 1
    /\ pool_now' \in pool_now..MaxTime
    /\ pool_unticked' = SystemIds
    /\ UNCHANGED <<resource_pool, strategy, rr_cursor, inbound, suspended, give_tasks,
                   pool_inbox, pool_ras, pool_done, resumed>>
    /\ UNCHANGED <<tsvars, ravars, backendvars>>

\* The CompleteTask messages that may reach the principal: those the agents
\* have sent, at any time and any number of times, and one that no
\* invocation is waiting for.
CompleteTaskIds == {d.task_id : d \in pool_done} \cup {0}

\* A CompleteTask reaches the principal: the suspended invocation keyed on
\* its task id is resumed with the original message; without one the
\* message is discarded.
Resume(task_id) ==
    /\ IF task_id \in DOMAIN suspended
       THEN /\ resumed' = Append(resumed, suspended[task_id])
            /\ suspended' = Forget(suspended, task_id)
       ELSE UNCHANGED <<resumed, suspended>>
    /\ UNCHANGED <<resource_pool, strategy, rr_cursor, inbound, give_tasks, pool_inbox,
                   pool_ras, pool_done, pool_now, pool_round, pool_unticked>>
    /\ UNCHANGED <<tsvars, ravars, backendvars>>

NextPool ==
    \/ Dispatch
    \/ PoolGiveTask
    \/ PoolTimeUpdate
    \/ PoolRound
    \/ \E task_id \in CompleteTaskIds : Resume(task_id)

SpecPool == InitPool /\ [][NextPool]_vars

\* ================================================= durations of task settings
\* duration_validation.py computes in Python floats, IEEE 754 binary64. A
\* float is modelled by its exact value m * 2^e, with m a natural number
\* below 2^53 that is odd or zero; naturals that do not fit a machine word
\* are sequences of limbs, least significant first, without leading zeros.

\* ---------------------------------------------------------------- naturals
LimbBits == 13
Limb == 2^LimbBits

RECURSIVE BigNorm(_)
BigNorm(a) ==
    IF a = <<>> THEN <<>>
    ELSE IF a[Len(a)] = 0 THEN BigNorm(SubSeq(a, 1, Len(a) - 1)) ELSE a

RECURSIVE BigFromInt(_)
BigFromInt(n) == IF n = 0 THEN <<>> ELSE <<n % Limb>> \o BigFromInt(n \div Limb)

RECURSIVE BigMulSmall(_, _, _)
BigMulSmall(a, n, carry) ==
    IF a = <<>> THEN BigFromInt(carry)
    ELSE LET t == Head(a) * n + carry
         IN  <<t % Limb>> \o BigMulSmall(Tail(a), n, t \div Limb)

RECURSIVE BigAdd(_, _, _)
BigAdd(a, b, carry) ==
    IF a = <<>> /\ b = <<>> THEN BigFromInt(carry)
    ELSE LET x == IF a = <<>> THEN 0 ELSE Head(a)
             y == IF b = <<>> THEN 0 ELSE Head(b)
             t == x + y + carry
         IN  <<t % Limb>> \o BigAdd(IF a = <<>> THEN <<>> ELSE Tail(a),
                                    IF b = <<>> THEN <<>> ELSE Tail(b), t \div Limb)

RECURSIVE BigMul(_, _)
BigMul(a, b) ==
    IF a = <<>> \/ b = <<>> THEN <<>>
    ELSE BigNorm(BigAdd(BigMulSmall(a, Head(b), 0), <<0>> \o BigMul(a, Tail(b)), 0))

\* Quotient and remainder of a by d, 0 < d < 2^17
RECURSIVE BigDivSmall(_, _)
BigDivSmall(a, d) ==
    IF a = <<>> THEN [q |-> <<>>, r |-> 0]
    ELSE LET hi == BigDivSmall(Tail(a), d)
             t == hi.r * Limb + Head(a)
         IN  [q |-> BigNorm(<<t \div d>> \o hi.q), r |-> t % d]

RECURSIVE BigLess(_, _)
BigLess(a, b) ==
    IF Len(a) # Len(b) THEN Len(a) < Len(b)
    ELSE IF a = <<>> THEN FALSE
    ELSE IF a[Len(a)] # b[Len(b)] THEN a[Len(a)] < b[Len(b)]
    ELSE BigLess(BigNorm(SubSeq(a, 1, Len(a) - 1)), BigNorm(SubSeq(b, 1, Len(b) - 1)))

RECURSIVE IntBitLen(_)
IntBitLen(n) == IF n = 0 THEN 0 ELSE 1 + IntBitLen(n \div 2)

BigBitLen(a) == IF a = <<>> THEN 0 ELSE (Len(a) - 1) * LimbBits + IntBitLen(a[Len(a)])

\* a * 2^s
RECURSIVE BigShiftLeft(_, _)
BigShiftLeft(a, s) ==
    IF a = <<>> THEN <<>>
    ELSE IF s >= LimbBits THEN <<0>> \o BigShiftLeft(a, s - LimbBits)
    ELSE BigMulSmall(a, 2^s, 0)

\* a div 2^s, and whether a bit was shifted out
RECURSIVE BigShiftRight(_, _)
BigShiftRight(a, s) ==
    IF a = <<>> THEN [q |-> <<>>, lost |-> FALSE]
    ELSE IF s >= LimbBits
    THEN LET rest == BigShiftRight(Tail(a), s - LimbBits)
         IN  [q |-> rest.q, lost |-> rest.lost \/ Head(a) # 0]
    ELSE LET d == BigDivSmall(a, 2^s)
         IN  [q |-> d.q, lost |-> d.r # 0]

BigIsOdd(a) == a # <<>> /\ Head(a) % 2 = 1

\* ------------------------------------------------------------------ floats
MantissaBits == 53
Zero == [m |-> <<>>, e |-> 0]

\* The number of times 2 divides n > 0
RECURSIVE TrailingZeros(_)
TrailingZeros(n) == IF n % 2 = 1 THEN 0 ELSE 1 + TrailingZeros(n \div 2)

\* The same value with an odd m
RECURSIVE Canonical(_)
Canonical(x) ==
    IF x.m = <<>> THEN Zero
    ELSE IF Head(x.m) = 0 THEN Canonical([m |-> Tail(x.m), e |-> x.e + LimbBits])
    ELSE LET k == TrailingZeros(Head(x.m))
         IN  [m |-> BigDivSmall(x.m, 2^k).q, e |-> x.e + k]

\* The float nearest to (p + f) * 2^e, ties to even, where 0 <= f < 1 and
\* inexact says that f > 0; p has more than MantissaBits bits when inexact
RoundToFloat(p, inexact, e) ==
    IF BigBitLen(p) <= MantissaBits THEN Canonical([m |-> p, e |-> e])
    ELSE LET s == BigBitLen(p) - MantissaBits
             upper == BigShiftRight(p, s - 1)
             half == BigIsOdd(upper.q)
             q == BigDivSmall(upper.q, 2).q
             up == half /\ (upper.lost \/ inexact \/ BigIsOdd(q))
         IN  Canonical([m |-> IF up THEN BigNorm(BigAdd(q, <<1>>, 0)) ELSE q, e |-> e + s])

\* Bits kept below the binary point while dividing
GuardBits == 78

\* n / d as a float, for integers 0 <= n and 0 < d < 2^17: Python's n / d
\* and float("<n / 10^k>") are both correctly rounded
FloatDiv(n, d) ==
    IF d = 1 THEN Canonical([m |-> BigFromInt(n), e |-> 0])
    ELSE LET t == BigDivSmall(BigShiftLeft(BigFromInt(n), GuardBits), d)
         IN  RoundToFloat(t.q, t.r # 0, -GuardBits)

\* x * y
FloatMul(x, y) == RoundToFloat(BigMul(x.m, y.m), FALSE, x.e + y.e)

\* x < y
FloatLess(x, y) ==
    IF x.e >= y.e THEN BigLess(BigShiftLeft(x.m, x.e - y.e), y.m)
    ELSE BigLess(x.m, BigShiftLeft(y.m, y.e - x.e))

\* ------------------------------------------------------------ duration texts
\* A duration string is a sequence of characters.
Digits == {"0", "1", "3"}
UnitChars == {"d", "h", "m", "s"}
Blank == " "
\* The plus-minus sign, U+00B1
PlusMinus == "+-"

\* Texts of at most n characters over the characters of S
RECURSIVE TextsUpTo(_, _)
TextsUpTo(S, n) ==
    IF n = 0 THEN {<<>>}
    ELSE LET shorter == TextsUpTo(S, n - 1)
         IN  shorter \cup {<<c>> \o t : c \in S, t \in {u \in shorter : Len(u) = n - 1}}

\* What a configuration may hold where a number belongs and where a unit
\* belongs
MeanTexts == TextsUpTo(Digits \cup {"."}, MaxMeanDigits)
StdTexts == TextsUpTo(Digits \cup {"."}, MaxStdDigits)
UnitTexts == {<<>>} \cup {<<u>> : u \in UnitChars} \cup {<<"w">>}

\* str.strip()
RECURSIVE Strip(_)
Strip(s) ==
    IF s = <<>> THEN s
    ELSE IF Head(s) = Blank THEN Strip(Tail(s))
    ELSE IF s[Len(s)] = Blank THEN Strip(SubSeq(s, 1, Len(s) - 1))
    ELSE s

\* The end of the longest run of characters of S in s from position i on
RECURSIVE RunEnd(_, _, _)
RunEnd(s, i, S) == IF i <= Len(s) /\ s[i] \in S THEN RunEnd(s, i + 1, S) ELSE i

\* (\d+\.?\d*) at position i: the position after it, or 0 without a match
NumberEnd(s, i) ==
    LET whole == RunEnd(s, i, Digits)
        point == IF whole <= Len(s) /\ s[whole] = "." THEN whole + 1 ELSE whole
    IN  IF whole = i THEN 0 ELSE RunEnd(s, point, Digits)

\* \s*([dhms]?) at position i: where the unit is, and the position after it
UnitAt(s, i) ==
    LET at == RunEnd(s, i, {Blank})
    IN  IF at <= Len(s) /\ s[at] \in UnitChars
        THEN [unit |-> s[at], end |-> at + 1]
        ELSE [unit |-> "", end |-> at]

\* int() of a run of digits
RECURSIVE DigitsValue(_)
DigitsValue(s) ==
    IF s = <<>> THEN 0
    ELSE 10 * DigitsValue(SubSeq(s, 1, Len(s) - 1))
         + (CASE s[Len(s)] = "0" -> 0 [] s[Len(s)] = "1" -> 1 [] s[Len(s)] = "3" -> 3)

\* float() of a text that matches \d+\.?\d*
FloatOfText(s) ==
    LET digits == SelectSeq(s, LAMBDA c : c # ".")
        whole == RunEnd(s, 1, Digits) - 1
        places == Len(digits) - whole
    IN  FloatDiv(DigitsValue(digits), 10^places)

\* unit_multipliers = {'d': 1.0, 'h': 1/24, 'm': 1/(24*60), 's': 1/(24*60*60)}
PerDay == FloatDiv(1, 1)
PerHour == FloatDiv(1, 24)
PerMinute == FloatDiv(1, 24 * 60)
PerSecond == FloatDiv(1, 24 * 60 * 60)
unit_multipliers(unit) ==
    CASE unit = "d" -> PerDay
      [] unit = "h" -> PerHour
      [] unit = "m" -> PerMinute
      [] unit = "s" -> PerSecond

\* group(2) or 'd'
UnitOrDays(unit) == IF unit = "" THEN "d" ELSE unit

\* float(value) * unit_multipliers[unit]
InDays(value, unit) == FloatMul(FloatOfText(value), unit_multipliers(UnitOrDays(unit)))

ValueError == [ok |-> FALSE, mean_days |-> Zero, std_days |-> Zero]
Parsed(mean_days, std_days) == [ok |-> TRUE, mean_days |-> mean_days, std_days |-> std_days]

\* mean_days - 2 * std_days < 0: doubling is exact, and the rounded
\* difference of two floats has the sign of their exact difference
BelowTwoSigma(mean_days, std_days) ==
    FloatLess(mean_days, [m |-> std_days.m, e |-> std_days.e + 1])

\* re.match of the pattern of a normal distribution, "1.5d±0.5d"
NormalMatch(s) ==
    LET mean_end == NumberEnd(s, 1)
        mean_unit == UnitAt(s, mean_end)
        sign == RunEnd(s, mean_unit.end, {Blank})
        std_start == RunEnd(s, sign + 1, {Blank})
        std_end == NumberEnd(s, std_start)
        std_unit == UnitAt(s, std_end)
    IN  IF /\ mean_end # 0
           /\ sign <= Len(s) /\ s[sign] = PlusMinus
           /\ std_end # 0
           /\ std_unit.end = Len(s) + 1
        THEN [ok |-> TRUE, mean_value |-> SubSeq(s, 1, mean_end - 1),
              mean_unit |-> mean_unit.unit,
              std_value |-> SubSeq(s, std_start, std_end - 1),
              std_unit |-> std_unit.unit]
        ELSE [ok |-> FALSE]

\* re.match of the pattern of a fixed duration, "1.5d"
FixedMatch(s) ==
    LET base_end == NumberEnd(s, 1)
        unit == UnitAt(s, base_end)
    IN  IF base_end # 0 /\ unit.end = Len(s) + 1
        THEN [ok |-> TRUE, base_value |-> SubSeq(s, 1, base_end - 1), unit |-> unit.unit]
        ELSE [ok |-> FALSE]

parse_duration(duration_str) ==
    LET s == Strip(duration_str)
        normal_match == NormalMatch(s)
        fixed_match == FixedMatch(s)
    IN  IF normal_match.ok
        THEN LET mean_days == InDays(normal_match.mean_value, normal_match.mean_unit)
                 std_days == InDays(normal_match.std_value, normal_match.std_unit)
             IN  IF BelowTwoSigma(mean_days, std_days)
                 THEN ValueError
                 ELSE Parsed(mean_days, std_days)
        ELSE IF fixed_match.ok
        THEN Parsed(InDays(fixed_match.base_value, fixed_match.unit), Zero)
        ELSE ValueError

\* -------------------------------------------------------------- task settings
\* Python values carry their type: a string has its text, a number its
\* value, a tuple its items and a dictionary its values.
StrValue(s) == [type |-> "str", text |-> s, number |-> 0, items |-> <<>>]
IntValue(n) == [type |-> "int", text |-> <<>>, number |-> n, items |-> <<>>]
TupleValue(t) == [type |-> "tuple", text |-> <<>>, number |-> 0, items |-> t]
DictValue(entries) == [type |-> "dict", text |-> <<>>, number |-> 0, items |-> entries]
NoneValue == [type |-> "NoneType", text |-> <<>>, number |-> 0, items |-> <<>>]

IsNumber(value) == value.type \in {"int", "float"}

\* The duration strings a configuration may hold: a mean and a standard
\* deviation with their units, with or without the sign between them, with
\* or without blanks
Layouts ==
    {[lead |-> <<>>, gap |-> <<>>, sep |-> <<>>],
     [lead |-> <<>>, gap |-> <<>>, sep |-> <<PlusMinus>>],
     [lead |-> <<Blank>>, gap |-> <<Blank>>, sep |-> <<Blank, PlusMinus, Blank>>]}

DurationTexts(layouts) ==
    {l.lead \o n1 \o l.gap \o u1 \o l.sep \o n2 \o l.gap \o u2 \o l.lead :
        l \in layouts, n1 \in MeanTexts, u1 \in UnitTexts, n2 \in StdTexts, u2 \in UnitTexts}

NumberValues == {IntValue(n) : n \in -1..MaxDuration}

\* The entries of TASK_SETTINGS: (agent_type, duration),
\* (agent_type, mean_days, std_days), and what is neither
TaskSettingValues(duration_texts) ==
    {TupleValue(<<StrValue(<<"Packer">>), StrValue(t)>>) : t \in duration_texts}
    \cup {TupleValue(<<a, d>>) : a \in {StrValue(<<"Packer">>), NoneValue},
                                 d \in NumberValues \cup {NoneValue}}
    \cup {TupleValue(<<StrValue(<<"Packer">>), m, s>>) :
              m \in NumberValues \cup {NoneValue}, s \in NumberValues \cup {NoneValue}}
    \cup {TupleValue(<<StrValue(<<"Packer">>)>>),
          TupleValue(<<StrValue(<<"Packer">>), IntValue(1), IntValue(0), IntValue(0)>>),
          StrValue(<<"1", "d">>)}

\* The TASK_SETTINGS of a request: a dictionary, here of at most one entry,
\* or something else
TaskSettingsValues(entries) ==
    {DictValue(<<>>), TupleValue(<<>>)} \cup {DictValue(<<s>>) : s \in entries}

\* try: parse_duration(duration_value) except ValueError: errors.append(...)
StringChecked(duration_str, result) ==
    [errors |-> IF result.ok THEN <<>> ELSE <<"invalid duration format">>,
     calls |-> <<[duration_str |-> duration_str, result |-> result]>>]

\* The errors of one entry of the dictionary, and the calls of
\* parse_duration made for it
ValidateEntry(task_setting) ==
    LET setting == task_setting.items
        NoCalls == <<>>
    IN  IF task_setting.type \notin {"list", "tuple"}
        THEN [errors |-> <<"setting must be a list or tuple">>, calls |-> NoCalls]
        ELSE IF Len(setting) < 2 \/ Len(setting) > 3
        THEN [errors |-> <<"setting must have 2 or 3 elements">>, calls |-> NoCalls]
        ELSE IF setting[1].type # "str"
        THEN [errors |-> <<"agent_type must be a string">>, calls |-> NoCalls]
        ELSE IF Len(setting) = 2
        THEN LET duration_value == setting[2]
             IN  IF duration_value.type = "str"
                 THEN StringChecked(duration_value.text,
                                    parse_duration(duration_value.text))
                 ELSE IF IsNumber(duration_value)
                 THEN [errors |-> IF duration_value.number <= 0
                                  THEN <<"duration must be positive">> ELSE <<>>,
                       calls |-> NoCalls]
                 ELSE [errors |-> <<"duration must be string or number">>,
                       calls |-> NoCalls]
        ELSE LET mean_days == setting[2]
                 std_days == setting[3]
             IN  IF ~IsNumber(mean_days) \/ ~IsNumber(std_days)
                 THEN [errors |-> <<"mean and std_dev must be numbers">>, calls |-> NoCalls]
                 ELSE [errors |->
                          (IF mean_days.number <= 0
                           THEN <<"mean duration must be positive">> ELSE <<>>)
                          \o (IF std_days.number < 0
                              THEN <<"std_dev must be non-negative">> ELSE <<>>)
                          \o (IF std_days.number > 0 /\ mean_days.number - 2 * std_days.number < 0
                              THEN <<"violates normal distribution rule">> ELSE <<>>),
                       calls |-> NoCalls]

\* The errors and calls of two runs of entries
Merged(first, rest) ==
    [errors |-> first.errors \o rest.errors, calls |-> first.calls \o rest.calls]

\* for task_name, task_setting in task_settings.items()
RECURSIVE ValidateEntries(_)
ValidateEntries(entries) ==
    IF entries = <<>> THEN [errors |-> <<>>, calls |-> <<>>]
    ELSE Merged(ValidateEntry(Head(entries)), ValidateEntries(Tail(entries)))

\* return len(errors) == 0, errors
Returned(checked) ==
    [is_valid |-> Len(checked.errors) = 0, errors |-> checked.errors,
     calls |-> checked.calls, done |-> TRUE]

validate_task_settings(settings) ==
    IF settings.type # "dict"
    THEN [is_valid |-> FALSE, errors |-> <<"TASK_SETTINGS must be a dictionary">>,
          calls |-> <<>>, done |-> TRUE]
    ELSE Returned(ValidateEntries(settings.items))

\* Nothing returned yet
NotValidated == [is_valid |-> FALSE, errors |-> <<>>, calls |-> <<>>, done |-> FALSE]

\* A request brings task settings that have not been validated.
InitSettings ==
    /\ IdleTS
    /\ InitRA
    /\ IdlePool
    /\ agent_config = AgentNames \cup {TimeService}
    /\ task_settings \in TaskSettingsValues(TaskSettingValues(DurationTexts(Layouts)))
    /\ validation = NotValidated
    /\ runs_store = EmptyMap
    /\ running_tasks = {}
    /\ allocated_ports = {}
    /\ run_port_ranges = EmptyMap
    /\ active_connections = {}
    /\ gone = {}
    /\ tasks = {}
    /\ suspended_requests = {}
    /\ http_responses = {}
    /\ handled = 0

\* is_valid, errors = validate_task_settings(request.task_settings)
ValidateTaskSettings ==
    /\ ~validation.done
    /\ validation' = validate_task_settings(task_settings)
    /\ UNCHANGED <<task_settings, servicevars>>
    /\ UNCHANGED <<tsvars, ravars, poolvars>>

NextSettings == ValidateTaskSettings

SpecSettings == InitSettings /\ [][NextSettings]_vars

\* ======================================================= backend services
\* The runs in runs_store, all of one simulation, and the WebSocket clients
Runs == {"calm-sea-wave", "late-sun-leaf"}
WebSockets == {"client"}

\* len(sim["agent_files"]), and the resource agents of the default pools
BusinessAgentCount == 1
ResourceAgentCount == 1

\* Where the search for business and for resource agent ports starts; the
\* safety buffer behind the business ports does not reach the latter
DEFAULT_BUSINESS_PORT_START == 8000
DEFAULT_RESOURCE_PORT_START == 9000

\* No port_allocation yet
NoAllocation ==
    [business_base |-> 0, resource_base |-> 0, business_count |-> 0, resource_count |-> 0]

PortRange(base, count) == base..(base + count - 1)

\* The ports of a port_allocation
PortsOf(allocation) ==
    PortRange(allocation.business_base, allocation.business_count)
        \cup PortRange(allocation.resource_base, allocation.resource_count)

\* find_available_port_range: the first base from start_port on with no
\* allocated port in its range; every port is free on the host
find_available_port_range(start_port, count) ==
    Min({base_port \in start_port..(start_port + count * Cardinality(allocated_ports)) :
            PortRange(base_port, count) \cap allocated_ports = {}})

\* allocate_ports_for_run: the port_allocation it stores and returns
allocate_ports_for_run(business_agent_count, resource_agent_count) ==
    [business_base |-> find_available_port_range(DEFAULT_BUSINESS_PORT_START,
                                                 business_agent_count + 1),
     resource_base |-> find_available_port_range(DEFAULT_RESOURCE_PORT_START,
                                                 resource_agent_count),
     business_count |-> business_agent_count + 1,
     resource_count |-> resource_agent_count]

\* release_ports_for_run: allocated_ports and run_port_ranges afterwards
ReleasedPorts(run_id) ==
    IF run_id \in DOMAIN run_port_ranges
    THEN allocated_ports \ PortsOf(run_port_ranges[run_id])
    ELSE allocated_ports
ReleasedRanges(run_id) ==
    [r \in DOMAIN run_port_ranges \ {run_id} |-> run_port_ranges[r]]

\* The services after import, with the runs created
InitServices ==
    /\ runs_store = [run_id \in Runs |-> "configured"]
    /\ running_tasks = {}
    /\ allocated_ports = {}
    /\ run_port_ranges = EmptyMap
    /\ active_connections = {}
    /\ gone = {}
    /\ tasks = {}
    /\ suspended_requests = {}
    /\ http_responses = {}
    /\ handled = 0

\* websocket_endpoint: a client connects
Connect(websocket) ==
    /\ websocket \notin active_connections
    /\ active_connections' = active_connections \cup {websocket}
    /\ UNCHANGED <<gone, runs_store, running_tasks, allocated_ports, run_port_ranges,
                   tasks, suspended_requests, http_responses, handled>>

\* The client goes away; the endpoint has not noticed yet
PeerGone(websocket) ==
    /\ websocket \in active_connections \ gone
    /\ gone' = gone \cup {websocket}
    /\ UNCHANGED <<active_connections, runs_store, running_tasks, allocated_ports,
                   run_port_ranges, tasks, suspended_requests, http_responses, handled>>

\* websocket_endpoint: except WebSocketDisconnect: active_connections.remove
Disconnect(websocket) ==
    /\ websocket \in gone
    /\ active_connections' = active_connections \ {websocket}
    /\ gone' = gone \ {websocket}
    /\ UNCHANGED <<runs_store, running_tasks, allocated_ports, run_port_ranges,
                   tasks, suspended_requests, http_responses, handled>>

\* notify_clients raises when a send_json fails
NotifyFails == active_connections \cap gone # {}

\* update_run_status up to its await: run["status"] = status
WithStatus(run_id, status) == [runs_store EXCEPT ![run_id] = status]

\* A check that lets any run be executed
ExecuteAlways(status) == TRUE

\* execute_run: run["status"] != CONFIGURED raises 400
ExecuteAllowed(status) == status = "configured"

\* update_run_config: run["status"] not in [CONFIGURED] raises 400
UpdateAllowed(status) == status \in {"configured"}

Response(id, kind, run_id, status_code) ==
    [id |-> id, kind |-> kind, run_id |-> run_id, status_code |-> status_code]
Request(id, kind, run_id) == [id |-> id, kind |-> kind, run_id |-> run_id]

\* execute_run up to its await in update_run_status
execute_run(run_id) ==
    /\ handled < MaxRequests
    /\ handled' = handled + 1
    /\ IF ~ExecuteAllowed(runs_store[run_id]) \/ run_id \in running_tasks
       THEN /\ http_responses' = http_responses \cup {Response(handled', "execute_run", run_id, 400)}
            /\ UNCHANGED <<runs_store, suspended_requests>>
       ELSE /\ runs_store' = WithStatus(run_id, "running")
            /\ suspended_requests' = suspended_requests \cup {Request(handled', "execute_run", run_id)}
            /\ UNCHANGED http_responses
    /\ UNCHANGED <<running_tasks, allocated_ports, run_port_ranges, active_connections,
                   gone, tasks>>

\* execute_run from the await on: create_task, running_tasks[run_id] = task
execute_run_resumed(request) ==
    /\ request \in suspended_requests
    /\ request.kind = "execute_run"
    /\ suspended_requests' = suspended_requests \ {request}
    /\ IF NotifyFails
       THEN /\ http_responses' = http_responses \cup
                   {Response(request.id, "execute_run", request.run_id, 500)}
            /\ UNCHANGED <<tasks, running_tasks>>
       ELSE /\ tasks' = tasks \cup {[id |-> request.id, run_id |-> request.run_id,
                                     pc |-> "created", port_allocation |-> NoAllocation]}
            /\ running_tasks' = running_tasks \cup {request.run_id}
            /\ http_responses' = http_responses \cup
                   {Response(request.id, "execute_run", request.run_id, 200)}
    /\ UNCHANGED <<runs_store, allocated_ports, run_port_ranges, active_connections,
                   gone, handled>>

\* The task_settings of a configuration request: none, a valid and an
\* invalid dictionary
RequestSettings ==
    {NoneValue,
     DictValue(<<TupleValue(<<StrValue(<<"Packer">>), StrValue(<<"1", "d">>)>>)>>),
     DictValue(<<TupleValue(<<StrValue(<<"Packer">>), IntValue(0)>>)>>)}

\* update_run_config up to its await in update_run_status
update_run_config(run_id, settings, transformed) ==
    /\ handled < MaxRequests
    /\ handled' = handled + 1
    /\ IF \/ ~UpdateAllowed(runs_store[run_id])
          \/ settings # NoneValue /\ ~validate_task_settings(settings).is_valid
          \/ ~transformed
       THEN /\ http_responses' = http_responses \cup
                   {Response(handled', "update_run_config", run_id, 400)}
            /\ UNCHANGED <<runs_store, suspended_requests>>
       ELSE /\ runs_store' = WithStatus(run_id, "configured")
            /\ suspended_requests' = suspended_requests \cup {Request(handled', "update_run_config", run_id)}
            /\ UNCHANGED http_responses
    /\ UNCHANGED <<running_tasks, allocated_ports, run_port_ranges, active_connections,
                   gone, tasks>>

\* update_run_config from the await on: the response, or 400 for any exception
update_run_config_resumed(request) ==
    /\ request \in suspended_requests
    /\ request.kind = "update_run_config"
    /\ suspended_requests' = suspended_requests \ {request}
    /\ http_responses' = http_responses \cup
           {Response(request.id, "update_run_config", request.run_id,
                     IF NotifyFails THEN 400 ELSE 200)}
    /\ UNCHANGED <<runs_store, running_tasks, allocated_ports, run_port_ranges,
                   active_connections, gone, tasks, handled>>

\* The task of run_simulation_background at its next await
At(task, pc, port_allocation) ==
    (tasks \ {task}) \cup {[task EXCEPT !.pc = pc, !.port_allocation = port_allocation]}

\* except Exception: update_run_status(FAILED) up to its await
Crashed(task, port_allocation) ==
    /\ runs_store' = WithStatus(task.run_id, "failed")
    /\ tasks' = At(task, "notify_crashed", port_allocation)

\* finally, up to its await: del running_tasks[run_id]
Finally(task) ==
    /\ running_tasks' = running_tasks \ {task.run_id}
    /\ tasks' = At(task, "notify_finally", task.port_allocation)

\* run_simulation_background up to the await of its first update_run_status
BackgroundStarts(task) ==
    /\ task.pc = "created"
    /\ runs_store' = WithStatus(task.run_id, "running")
    /\ tasks' = At(task, "notify_running", NoAllocation)
    /\ UNCHANGED <<running_tasks, allocated_ports, run_port_ranges, active_connections,
                   gone, suspended_requests, http_responses, handled>>

\* ... from there to the await of run_simulation_async or, after a failed
\* transformation, of update_run_status(FAILED)
BackgroundTransforms(task) ==
    /\ task.pc = "notify_running"
    /\ IF NotifyFails
       THEN /\ Crashed(task, NoAllocation)
            /\ UNCHANGED <<allocated_ports, run_port_ranges>>
       ELSE LET port_allocation == allocate_ports_for_run(BusinessAgentCount,
                                                          ResourceAgentCount)
            IN  /\ allocated_ports' = allocated_ports \cup PortsOf(port_allocation)
                /\ run_port_ranges' = MapPut(run_port_ranges, task.run_id, port_allocation)
                /\ \E outcome \in {"success", "failure", "exception"} :
                       IF outcome = "success"
                       THEN /\ tasks' = At(task, "simulating", port_allocation)
                            /\ UNCHANGED runs_store
                       ELSE IF outcome = "failure"
                       THEN /\ tasks' = At(task, "notify_status", port_allocation)
                            /\ runs_store' = WithStatus(task.run_id, "failed")
                       ELSE Crashed(task, port_allocation)
    /\ UNCHANGED <<running_tasks, active_connections, gone, suspended_requests, http_responses, handled>>

\* ... from the result of run_simulation_async to the await of the
\* update_run_status for it
BackgroundSimulated(task) ==
    /\ task.pc = "simulating"
    /\ \E outcome \in {"timed_out", "complete", "failed", "exception"} :
           IF outcome = "exception"
           THEN Crashed(task, task.port_allocation)
           ELSE /\ runs_store' = WithStatus(task.run_id, outcome)
                /\ tasks' = At(task, "notify_status", task.port_allocation)
    /\ UNCHANGED <<running_tasks, allocated_ports, run_port_ranges, active_connections,
                   gone, suspended_requests, http_responses, handled>>

\* ... from the update_run_status of a result: release_ports_for_run and
\* the finally clause, or the except clause when notify_clients raised
BackgroundReleases(task) ==
    /\ task.pc = "notify_status"
    /\ IF NotifyFails
       THEN /\ Crashed(task, task.port_allocation)
            /\ UNCHANGED <<running_tasks, allocated_ports, run_port_ranges>>
       ELSE /\ allocated_ports' = ReleasedPorts(task.run_id)
            /\ run_port_ranges' = ReleasedRanges(task.run_id)
            /\ Finally(task)
            /\ UNCHANGED runs_store
    /\ UNCHANGED <<active_connections, gone, suspended_requests, http_responses, handled>>

\* ... from the update_run_status of the except clause: release_ports_for_run
\* unless notify_clients raised, then the finally clause
BackgroundCrashed(task) ==
    /\ task.pc = "notify_crashed"
    /\ IF NotifyFails
       THEN UNCHANGED <<allocated_ports, run_port_ranges>>
       ELSE /\ allocated_ports' = ReleasedPorts(task.run_id)
            /\ run_port_ranges' = ReleasedRanges(task.run_id)
    /\ Finally(task)
    /\ UNCHANGED <<runs_store, active_connections, gone, suspended_requests, http_responses, handled>>

\* ... from the notify_clients of the finally clause to the end
BackgroundEnds(task) ==
    /\ task.pc = "notify_finally"
    /\ tasks' = At(task, "done", task.port_allocation)
    /\ UNCHANGED <<runs_store, running_tasks, allocated_ports, run_port_ranges,
                   active_connections, gone, suspended_requests, http_responses, handled>>

InitBackend ==
    /\ IdleTS
    /\ InitRA
    /\ IdlePool
    /\ agent_config = AgentNames \cup {TimeService}
    /\ task_settings = NoneValue
    /\ validation = NotValidated
    /\ InitServices

NextBackend ==
    /\ \/ \E websocket \in WebSockets : Connect(websocket)
       \/ \E websocket \in WebSockets : PeerGone(websocket)
       \/ \E websocket \in WebSockets : Disconnect(websocket)
       \/ \E run_id \in Runs : execute_run(run_id)
       \/ \E request \in suspended_requests : execute_run_resumed(request)
       \/ \E run_id \in Runs : \E settings \in RequestSettings : \E transformed \in BOOLEAN :
              update_run_config(run_id, settings, transformed)
       \/ \E request \in suspended_requests : update_run_config_resumed(request)
       \/ \E task \in tasks : BackgroundStarts(task)
       \/ \E task \in tasks : BackgroundTransforms(task)
       \/ \E task \in tasks : BackgroundSimulated(task)
       \/ \E task \in tasks : BackgroundReleases(task)
       \/ \E task \in tasks : BackgroundCrashed(task)
       \/ \E task \in tasks : BackgroundEnds(task)
    /\ UNCHANGED <<tsvars, ravars, poolvars, task_settings, validation>>

SpecBackend == InitBackend /\ [][NextBackend]_vars


\* ================================================================ properties

\* C1: the virtual clock T of the TimeService never decreases: in every step
\* the new T is at least the old T, whatever next_time values were sent.
C1_MonotonicClock == [][virtual_time' >= virtual_time]_vars

\* The clock has advanced, and a later round was completed by a Hold below
\* the clock and left it where it was.
C1_Witness ==
    /\ virtual_time = MaxTime
    /\ round_number = 3
    /\ \E tu \in sent : ParseRoundId(tu.roundId).val = 1 /\ tu.now < virtual_time
    /\ \E tu \in sent : ParseRoundId(tu.roundId).val = 2 /\ tu.now = virtual_time
    /\ round_responses[2] = AgentNames

\* The participants that are live at the start of the current round: the
\* enumerated agents in the initial round, participating_agents afterwards.
ParticipantsAtRoundStart ==
    IF round_number = 0 THEN system_agents ELSE participating_agents

\* The step leaves the current round through a complete barrier or through
\* the watchdog, which strictly shrinks the participant set.
BarrierStep ==
    \/ ParticipantsAtRoundStart \subseteq GetSet(round_responses', round_number)
    \/ /\ monitor_round_timeout(round_number)
       /\ participating_agents' \subseteq ParticipantsAtRoundStart
       /\ participating_agents' # ParticipantsAtRoundStart

OneReplyMissing ==
    Cardinality(GetSet(round_responses, round_number)) + 1
        = Cardinality(participating_agents)

\* The replies that complete the barrier of the current round when handled
\* now: those of the current round from an agent that has not replied yet,
\* when exactly one reply is missing.
CompletingHolds ==
    IF OneReplyMissing
    THEN {msg \in HoldReplies :
              /\ ParseRoundId(msg.roundId) = [ok |-> TRUE, val |-> round_number]
              /\ msg.agentName \notin GetSet(round_responses, round_number)}
    ELSE {}
CompletingPassivates ==
    IF OneReplyMissing
    THEN {msg \in PassivateReplies :
              /\ ParseRoundId(msg.roundId) = [ok |-> TRUE, val |-> round_number]
              /\ msg.agentName \notin GetSet(round_responses, round_number)}
    ELSE {}

\* The next_time values of the Hold replies recorded in the current round.
HoldValues == {round_agent_next_times[a] : a \in DOMAIN round_agent_next_times}

\* The step advances the round with the Hold values `holds`: T becomes
\* max(T, min holds), or stays if there is none; R becomes R+1; and a
\* broadcast of round R+1 with now = T to all participants begins.
AdvancedWith(holds) ==
    /\ virtual_time' =
           IF holds = {} THEN virtual_time
           ELSE IF \E v \in holds : v <= virtual_time THEN virtual_time
           ELSE CHOOSE v \in holds : \A w \in holds : v <= w
    /\ round_number' = round_number + 1
    /\ \E b \in broadcasts' \ broadcasts :
           /\ b.round_id = round_number + 1
           /\ b.new_time = virtual_time'
           /\ b.business_agents \cup b.resource_agents = participating_agents'

\* The step shuts the service down and leaves T and R as they are.
ShutDown ==
    /\ ts_status' = "terminated"
    /\ virtual_time' = virtual_time
    /\ round_number' = round_number

C4_BackwardsTimeRejected ==
    [][round_number' = round_number + 1
         => /\ (\E v \in HoldValues : v < virtual_time) => virtual_time' = virtual_time
            /\ \A msg \in CompletingHolds :
                   (msg.nextTime < virtual_time /\ handle_hold(msg))
                     => virtual_time' = virtual_time]_vars

\* A Hold below the current T > 0 is recorded in a round of two participants
\* that advances as soon as the other one replies.
C4_Witness ==
    /\ virtual_time > 0
    /\ round_number < max_rounds
    /\ \E v \in HoldValues : v < virtual_time
    /\ participating_agents = AgentNames
    /\ Cardinality(GetSet(round_responses, round_number)) = 1

\* What a round timeout of the current round does, but for the case
\* R = max_rounds: the participants without a reply are evicted; without a
\* survivor the run is terminated; else the round is advanced with the Hold
\* values of the survivors.
EvictAndAdvance ==
    /\ participating_agents' =
           participating_agents \cap GetSet(round_responses, round_number)
    /\ DOMAIN round_agent_next_times \subseteq participating_agents'
    /\ IF participating_agents' = {} THEN ShutDown ELSE AdvancedWith(HoldValues)

\* C5 as stated: a round timeout of the current round evicts exactly the
\* silent participants and force-advances with the survivors' Hold values
\* (or terminates without survivors); a timeout of a past round changes
\* nothing.
C5_EvictionAlwaysAdvances ==
    [][\A r \in Rounds :
           monitor_round_timeout(r)
             => IF r = round_number
                THEN EvictAndAdvance
                ELSE UNCHANGED <<ts_status, virtual_time, round_number,
                                 participating_agents, round_agent_next_times,
                                 round_responses, broadcasts, sent, final_log>>]_vars

\* C5, amended: as stated when R < max_rounds; a timeout of round
\* R = max_rounds evicts the silent participants and shuts the run down,
\* leaving T and R unchanged.
C5_WatchdogEviction ==
    [][\A r \in Rounds :
           monitor_round_timeout(r)
             => IF r = round_number
                THEN IF round_number < max_rounds
                     THEN EvictAndAdvance
                     ELSE /\ participating_agents' =
                                 participating_agents \cap GetSet(round_responses, round_number)
                          /\ ShutDown
                ELSE UNCHANGED <<ts_status, virtual_time, round_number,
                                 participating_agents, round_agent_next_times,
                                 round_responses, broadcasts, sent, final_log>>]_vars

\* Round 1 timed out with one of two participants silent: it was evicted and
\* T advanced to the next_time of the survivor.
C5_Witness ==
    /\ round_number = 2
    /\ system_agents = AgentNames
    /\ Cardinality(participating_agents) = 1
    /\ participating_agents = round_responses[1]
    /\ virtual_time = MaxTime
    /\ monitors[1] = 0

\* Every TimeUpdate of the current round that can be addressed was sent.
RoundBroadcastDone ==
    \A a \in participating_agents \cap agent_config :
        [roundId |-> UniqueRoundId(round_number, a), now |-> virtual_time, dest |-> a] \in sent

\* C6: under fairness of the event loop and its timers every round that is
\* entered ends, by advancing or by terminating the run, whoever replies;
\* an open round whose broadcasts have returned has a monitor armed and all
\* its addressable TimeUpdates sent, unresolvable endpoints notwithstanding.
C6_NoDeadlock ==
    /\ \A r \in Rounds :
           (ts_status # "terminated" /\ round_number = r)
               ~> (ts_status = "terminated" \/ round_number > r)
    /\ []((ts_status = "running" /\ broadcasts = {})
              => (monitors[round_number] > 0 /\ RoundBroadcastDone))

\* A participant whose endpoint cannot be resolved was evicted and the run
\* went on with the other one.
C6_Witness ==
    /\ ts_status = "running"
    /\ round_number >= 2
    /\ system_agents = AgentNames
    /\ \E a \in system_agents : a \notin agent_config /\ a \notin participating_agents
    /\ participating_agents # {}
    /\ broadcasts = {}

\* The final-state records: all alike, round and virtual_time as they are
\* at shutdown.
FinalRecords == {final_log[i] : i \in 1..Len(final_log)}

\* C7 as stated, its safety part: at shutdown the final-state record has
\* round = max_rounds and virtual_time = T_final >= 0.
C7_FinalRoundIsMaxRounds ==
    ts_status = "terminated"
        => /\ final_log # <<>>
           /\ \A rec \in FinalRecords :
                  rec.round = max_rounds /\ rec.virtual_time = virtual_time
                      /\ rec.virtual_time >= 0

\* C7, amended: every run terminates; at shutdown the final-state record has
\* round = R <= max_rounds and virtual_time = T_final >= 0, and round =
\* max_rounds whenever a participant is still live (a run that lost all its
\* participants ends in the round in which the last ones were evicted).
C7_Termination ==
    /\ <>(ts_status = "terminated")
    /\ [](ts_status = "terminated"
              => /\ final_log # <<>>
                 /\ \A rec \in FinalRecords :
                        /\ rec.round = round_number
                        /\ rec.round <= max_rounds
                        /\ participating_agents # {} => rec.round = max_rounds
                        /\ rec.virtual_time = virtual_time
                        /\ rec.virtual_time >= 0)

\* A run of MaxRounds rounds ended at max_rounds with the clock advanced.
C7_Witness ==
    /\ ts_status = "terminated"
    /\ max_rounds = MaxRounds
    /\ round_number = max_rounds
    /\ virtual_time > 0
    /\ participating_agents = AgentNames

\* The part of the TimeService state that a reply can act on.
BarrierState ==
    <<virtual_time, round_number, participating_agents, round_responses,
      round_agent_next_times, broadcasts, ts_status>>

\* The replies in flight whose round number parses and is not the current one.
StaleHolds ==
    {msg \in HoldReplies :
        ParseRoundId(msg.roundId).ok /\ ParseRoundId(msg.roundId).val # round_number}
StalePassivates ==
    {msg \in PassivateReplies :
        ParseRoundId(msg.roundId).ok /\ ParseRoundId(msg.roundId).val # round_number}

\* C12: handling a Hold or Passivate of another round than the current one
\* leaves T, R, the participants, every response set and the next-time map
\* unchanged and starts no advance; the response set of a round that was
\* left never changes again.
C12_StaleRepliesIgnored ==
    [][/\ \/ UNCHANGED BarrierState
          \/ /\ \A msg \in StaleHolds : ~handle_hold(msg)
             /\ \A msg \in StalePassivates : ~handle_passivate(msg)
       /\ \A r \in DOMAIN round_responses :
              r < round_number => round_responses'[r] = round_responses[r]]_vars

\* The reply of a participant that was evicted in round 1 for its silence is
\* in flight in a later round, while the service is running.
C12_Witness ==
    /\ ts_status = "running"
    /\ round_number >= 2
    /\ \E msg \in StaleHolds :
           /\ ParseRoundId(msg.roundId).val = 1
           /\ msg.agentName \notin round_responses[1]
           /\ msg.agentName \notin participating_agents

\* The replies in flight of the current round from agents whose reply in
\* this round is already on record.
DuplicateHolds ==
    {msg \in HoldReplies :
        /\ ParseRoundId(msg.roundId) = [ok |-> TRUE, val |-> round_number]
        /\ msg.agentName \in GetSet(round_responses, round_number)}
DuplicatePassivates ==
    {msg \in PassivateReplies :
        /\ ParseRoundId(msg.roundId) = [ok |-> TRUE, val |-> round_number]
        /\ msg.agentName \in GetSet(round_responses, round_number)}

\* C13: handling a second Hold or Passivate of an agent in the same round,
\* whatever the first reply was and whatever next_time it carries, leaves the
\* whole TimeService state as it was: Resp[R], the recorded next_time, T and R.
C13_DuplicateRepliesIgnored ==
    [][\/ UNCHANGED tsvars
       \/ /\ \A msg \in DuplicateHolds : ~handle_hold(msg)
          /\ \A msg \in DuplicatePassivates : ~handle_passivate(msg)]_vars

\* In a running round of two participants one has passivated and the other
\* has not replied; a Hold of the first for the same round is in flight.
C13_Witness ==
    /\ ts_status = "running"
    /\ participating_agents = AgentNames
    /\ Cardinality(GetSet(round_responses, round_number)) = 1
    /\ \E msg \in DuplicateHolds : msg.agentName \notin DOMAIN round_agent_next_times

\* The round a TimeUpdate was sent for
RoundOf(tu) == ParseRoundId(tu.roundId).val

TimeUpdateOf(b, agent_name) ==
    [roundId |-> UniqueRoundId(b.round_id, agent_name),
     now |-> b.new_time,
     dest |-> agent_name]

\* C16: a broadcast is begun for the round R just entered, with the time T
\* and the participants of that round; every TimeUpdate sent belongs to a
\* broadcast, goes to a participant of its round and carries the round
\* number and the time of that broadcast, so that all TimeUpdates of a round
\* carry the same now; and when one is sent to a Resource Agent, the
\* TimeUpdate of that round has already been sent to every business agent of
\* the round that has an endpoint.
C16_TwoPhaseBroadcast ==
    [][/\ \A b \in broadcasts' \ broadcasts :
              round_number' # round_number =>
                  /\ b.round_id = round_number'
                  /\ b.new_time = virtual_time'
                  /\ b.agent_list = participating_agents'
       /\ \A tu \in sent' \ sent :
              /\ \E b \in broadcasts :
                     /\ tu.dest \in b.agent_list
                     /\ tu = TimeUpdateOf(b, tu.dest)
                     /\ IsResourceAgent(tu.dest) =>
                            \A a \in b.agent_list \cap agent_config :
                                ~IsResourceAgent(a) => TimeUpdateOf(b, a) \in sent
              /\ \A other \in sent :
                     RoundOf(other) = RoundOf(tu) => other.now = tu.now]_vars

\* The broadcast of round 2, at a later time than that of round 1, has
\* reached the business agent and the Resource Agent.
C16_Witness ==
    /\ round_number = 2
    /\ virtual_time = MaxTime
    /\ \A a \in AgentNames :
           [roundId |-> UniqueRoundId(2, a), now |-> MaxTime, dest |-> a] \in sent

\* C14: a Hold or Passivate whose round_id is not of the form
\* round_<R>_<agent_name> with integer R is never treated as a reply: handling
\* it leaves the TimeService state unchanged and the service running.
C14_MalformedRejected ==
    [][\/ UNCHANGED tsvars
       \/ /\ \A msg \in MalformedHolds : ~handle_hold(msg)
          /\ \A msg \in MalformedPassivates : ~handle_passivate(msg)]_vars

\* The step writes final-state records, each with the round and the virtual
\* time of the state it leaves.
FinalStateEmitted ==
    /\ Len(final_log') > Len(final_log)
    /\ \A i \in (Len(final_log) + 1)..Len(final_log') :
           final_log'[i] = [round |-> round_number, virtual_time |-> virtual_time]

\* C22: the round counter never exceeds max_rounds and no TimeUpdate carries
\* a round greater than max_rounds; in round R = max_rounds no step changes T
\* or R, and a step that would advance (a reply completing the barrier, or
\* any step that ends the run) emits the final-state record (round = R,
\* virtual_time = T) and shuts the service down.
C22_MaxRoundsBound ==
    /\ [](/\ round_number <= max_rounds
          /\ \A tu \in sent : RoundOf(tu) <= max_rounds)
    /\ [][round_number = max_rounds =>
             /\ round_number' = round_number
             /\ virtual_time' = virtual_time
             /\ \A msg \in CompletingHolds :
                    handle_hold(msg) => ShutDown /\ FinalStateEmitted
             /\ \A msg \in CompletingPassivates :
                    handle_passivate(msg) => ShutDown /\ FinalStateEmitted
             /\ ts_status' # ts_status => ShutDown /\ FinalStateEmitted]_vars

\* The last round allowed was broadcast to both agents and completed by
\* their replies; the service shut down in that round.
C22_Witness ==
    /\ ts_status = "terminated"
    /\ max_rounds = MaxRounds
    /\ round_number = MaxRounds
    /\ round_responses[MaxRounds] = AgentNames
    /\ \E tu \in sent : RoundOf(tu) = MaxRounds
    /\ final_log # <<>>

\* C23: startup sets the participant set to the agents enumerated from the
\* configuration; after startup no step adds a name to it, and the only step
\* that changes it is a round timeout, which removes the agents that have
\* not replied in the round.
C23_ParticipantsOnlyShrink ==
    [][/\ ts_status = "init" =>
              participating_agents' \in {participating_agents, system_agents}
       /\ ts_status # "init" =>
              /\ participating_agents' \subseteq participating_agents
              /\ participating_agents' # participating_agents =>
                     /\ monitor_round_timeout(round_number)
                     /\ participating_agents' =
                            GetSet(round_responses, round_number)]_vars

\* Both agents were enumerated at startup, the watchdog has evicted the
\* Resource Agent, and the run went on with the business agent alone.
C23_Witness ==
    /\ ts_status = "running"
    /\ system_agents = AgentNames
    /\ participating_agents = {Buyer}
    /\ \E tu \in sent : RoundOf(tu) = round_number /\ tu.dest = Buyer
    /\ \A tu \in sent : tu.dest = RA_Packer => RoundOf(tu) < round_number

\* The agents enumerated at startup that the watchdog has evicted since
Evicted == IF ts_status = "init" THEN {} ELSE system_agents \ participating_agents

\* The replies in flight that come from an evicted agent
EvictedHolds == {msg \in HoldReplies : msg.agentName \in Evicted}
EvictedPassivates == {msg \in PassivateReplies : msg.agentName \in Evicted}

\* C24: the response set of the current round and the next-time map hold
\* live participants only, and no step that changes the TimeService state is
\* the handling of a reply of an evicted agent: such a reply is neither
\* counted nor recorded and triggers no advance.
C24_EvictedRepliesAreNoise ==
    /\ [](ts_status # "init" =>
              /\ GetSet(round_responses, round_number) \subseteq participating_agents
              /\ DOMAIN round_agent_next_times \subseteq participating_agents)
    /\ [][\/ UNCHANGED tsvars
          \/ /\ \A msg \in EvictedHolds : ~handle_hold(msg)
             /\ \A msg \in EvictedPassivates : ~handle_passivate(msg)]_vars

\* The Resource Agent was evicted in a round whose TimeUpdate it had been
\* sent and not answered; its reply can still arrive while the business
\* agent, alone in the next round, has been sent the TimeUpdate of that round.
C24_Witness ==
    /\ ts_status = "running"
    /\ Evicted = {RA_Packer}
    /\ \E tu \in sent : tu.dest = Buyer /\ RoundOf(tu) = round_number
    /\ \E msg \in EvictedHolds :
           /\ RoundOf(msg) = round_number - 1
           /\ RA_Packer \notin round_responses[round_number - 1]

\* The TimeUpdates that the broadcasts in progress have still to send
PendingTimeUpdates ==
    UNION {{TimeUpdateOf(b, a) :
               a \in (b.business_agents \cup b.resource_agents) \cap agent_config} :
           b \in broadcasts}

\* C27: a TimeUpdate that a broadcast has still to send was not sent before,
\* so that each participant is sent the TimeUpdate of a round once (the
\* TimeUpdates of a round to one agent are all alike and every send adds a
\* new one); and a TimeUpdate of round R+1 is sent to an agent only when its
\* reply of round R has been received.
C27_NothingIsRetried ==
    /\ [](/\ PendingTimeUpdates \cap sent = {}
          /\ \A tu \in sent \cup PendingTimeUpdates :
                 /\ tu = [roundId |-> UniqueRoundId(RoundOf(tu), tu.dest),
                          now |-> tu.now, dest |-> tu.dest]
                 /\ RoundOf(tu) >= 2 =>
                        tu.dest \in GetSet(round_responses, RoundOf(tu) - 1)
          /\ \A t1, t2 \in sent :
                 (t1.dest = t2.dest /\ RoundOf(t1) = RoundOf(t2)) => t1 = t2)
    /\ [][Cardinality(sent') <= Cardinality(sent) + 1]_vars

\* Three rounds were broadcast to both agents, each after both had replied
\* in the round before.
C27_Witness ==
    /\ round_number = 3
    /\ round_responses[1] = AgentNames
    /\ round_responses[2] = AgentNames
    /\ Cardinality(sent) = 6

\* ======================================== claims about the Resource Agent

\* The task ids of the log events of one kind, in log order.
EventIds(kind) ==
    LET s == SelectSeq(ra_log, LAMBDA e : e.event = kind)
    IN  [i \in 1..Len(s) |-> s[i].task_id]
IsPrefix(s, t) == Len(s) <= Len(t) /\ \A i \in 1..Len(s) : s[i] = t[i]

\* The tasks that, by the log, were started and have not ended since.
ExecutingIn(log) ==
    {log[i].task_id : i \in {k \in 1..Len(log) :
        /\ log[k].event = "TASK_STARTED"
        /\ \A j \in (k + 1)..Len(log) :
               ~(/\ log[j].event \in {"TASK_COMPLETED", "COMPLETE_ERROR"}
                 /\ log[j].task_id = log[k].task_id)}}

\* C8: at most one task is in progress at a time, and the head of the queue
\* is popped only by a step that leaves no earlier task in progress, under
\* any interleaving of GiveTask, TimeUpdate and Reminder messages.
C8_AtMostOneExecution ==
    /\ [](/\ Cardinality(ExecutingIn(ra_log)) <= 1
          /\ ExecutingIn(ra_log) =
                 IF current_task = None THEN {} ELSE {current_task.task_id})
    /\ [][Len(task_queue') < Len(task_queue)
            => /\ Len(task_queue') = Len(task_queue) - 1
               /\ ExecutingIn(ra_log) \cap ExecutingIn(ra_log') = {}]_vars

\* Two tasks were queued before the first was started; the second was started
\* only after the first had completed.
C8_Witness ==
    /\ Len(ra_log) = 5
    /\ [i \in 1..5 |-> ra_log[i].event] =
           <<"TASK_QUEUED", "TASK_QUEUED", "TASK_STARTED", "TASK_COMPLETED", "TASK_STARTED">>
    /\ current_task # None
    /\ current_task.task_id = ra_log[2].task_id

\* C9: tasks are started in the order in which they were accepted into the
\* queue, and their CompleteTask messages are emitted in that order.
C9_FifoPerRA ==
    /\ IsPrefix(EventIds("TASK_STARTED"), EventIds("TASK_QUEUED"))
    /\ IsPrefix([i \in 1..Len(completions) |-> completions[i].taskID],
                EventIds("TASK_QUEUED"))

\* Two tasks, both waiting in the queue before the first started, were
\* completed one after the other.
C9_Witness ==
    /\ Len(completions) = 2
    /\ ra_log[1].event = "TASK_QUEUED"
    /\ ra_log[2].event = "TASK_QUEUED"
    /\ completions[1].taskID = ra_log[1].task_id
    /\ completions[2].taskID = ra_log[2].task_id

\* C10: a task with realized duration d is completed, its CompleteTask
\* emitted, at a virtual time that is at least d later than the virtual time
\* at which it was started.
C10_NoCompletionBeforeDuration ==
    \A c \in 1..Len(ra_log) :
        ra_log[c].event = "TASK_COMPLETED"
            => /\ Len(completions) >= 1
               /\ \E s \in 1..(c - 1) :
                      /\ ra_log[s].event = "TASK_STARTED"
                      /\ ra_log[s].task_id = ra_log[c].task_id
                      /\ \E q \in 1..(s - 1) :
                             /\ ra_log[q].event = "TASK_QUEUED"
                             /\ ra_log[q].task_id = ra_log[c].task_id
                             /\ ra_log[c].virtual_time - ra_log[s].virtual_time
                                    >= ra_log[q].detail

\* Of three TimeUpdates one started the only task at a time after 0 and a
\* later one completed it exactly at its completion time.
C10_Witness ==
    \E s, c \in 1..Len(ra_log) :
        /\ ra_log[s].event = "TASK_STARTED"
        /\ ra_log[c].event = "TASK_COMPLETED"
        /\ ra_log[c].task_id = ra_log[s].task_id
        /\ ra_log[s].virtual_time > 0
        /\ ra_log[c].virtual_time = ra_log[s].detail
        /\ ticks = 3
        /\ Len(completions) = 1
        /\ given = 1

\* The GiveTask messages with a duration that parses to a positive number
ValidGiveTasks ==
    {msg \in GiveTaskMessages :
        ParseDuration(msg.duration).ok /\ ParseDuration(msg.duration).val > 0}

\* C17: handling a GiveTask changes neither the task in progress nor the clock
\* and sends nothing, and if its duration is valid and positive, it appends
\* exactly one task, that of the message, at the tail of the queue and logs
\* TASK_QUEUED; no task is started, also when the agent is idle.
C17_GiveTaskOnlyEnqueues ==
    [][given' # given =>
           /\ UNCHANGED <<current_task, current_virtual_time, reminders,
                          completions, replies>>
           /\ \A msg \in ValidGiveTasks :
                  handle_task(msg) =>
                      /\ Len(task_queue') = Len(task_queue) + 1
                      /\ SubSeq(task_queue', 1, Len(task_queue)) = task_queue
                      /\ task_queue'[Len(task_queue')].task_id = msg.taskID
                      /\ task_queue'[Len(task_queue')].duration =
                             ParseDuration(msg.duration).val
                      /\ Len(ra_log') = Len(ra_log) + 1
                      /\ SubSeq(ra_log', 1, Len(ra_log)) = ra_log
                      /\ ra_log'[Len(ra_log')].event = "TASK_QUEUED"]_vars

\* After a TimeUpdate that found the agent idle, two tasks were given one
\* after the other: both wait in the queue in that order, none was started.
C17_Witness ==
    /\ current_virtual_time = 1
    /\ current_task = None
    /\ Len(task_queue) = 2
    /\ task_queue[1].task_id = 1
    /\ task_queue[2].task_id = 2
    /\ Len(ra_log) = 2
    /\ replies = EmptyBag

\* The GiveTask messages with a duration that does not parse or is not positive
InvalidGiveTasks == GiveTaskMessages \ ValidGiveTasks

\* The ids of the tasks the agent holds or has worked on
KnownTaskIds ==
    {task_queue[i].task_id : i \in 1..Len(task_queue)}
        \cup (IF current_task = None THEN {} ELSE {current_task.task_id})
        \cup {ra_log[i].task_id : i \in {k \in 1..Len(ra_log) :
                                            ra_log[k].event # "TASK_QUEUED"}}
        \cup {completions[i].taskID : i \in 1..Len(completions)}

\* C18: handling a GiveTask whose duration does not parse or is not positive
\* leaves the queue, the task in progress, the log and the outbox unchanged,
\* and every task that is queued, in progress, started or completed is one
\* that was accepted with a positive duration.
C18_InvalidTaskDropped ==
    /\ [][given' # given =>
             \A msg \in InvalidGiveTasks :
                 handle_task(msg) =>
                     UNCHANGED <<task_queue, current_task, ra_log, completions,
                                 current_virtual_time, reminders, replies>>]_vars
    /\ [](\A id \in KnownTaskIds :
              \E q \in 1..Len(ra_log) :
                  /\ ra_log[q].event = "TASK_QUEUED"
                  /\ ra_log[q].task_id = id
                  /\ ra_log[q].detail > 0)

\* The first task given was dropped, the second was accepted, started and
\* completed: it is the only task with a log event or a CompleteTask.
C18_Witness ==
    /\ given = 2
    /\ EventIds("TASK_QUEUED") = <<2>>
    /\ EventIds("TASK_STARTED") = <<2>>
    /\ Len(completions) = 1
    /\ completions[1].taskID = 2

\* The correlators of the TimeUpdates the agent has handled
HandledRoundIds == {UniqueRoundId(k, RA_Packer) : k \in 1..ticks}

\* The number of replies the agent has sent with correlator round_id
RepliesTo(round_id) ==
    LET to == {m \in BagToSet(replies) : m.roundId = round_id}
    IN  BagCardinality([m \in to |-> CopiesIn(m, replies)])

\* C19: for every TimeUpdate the agent has handled, either its one Reminder
\* is in flight and no reply was sent, or the Reminder was handled and
\* exactly one reply was sent; every reply is a Hold or a Passivate with the
\* correlator of a handled TimeUpdate and the agent's own name. A TimeUpdate
\* adds one Reminder and no reply, a Reminder adds one reply.
C19_OneReplyPerTick ==
    /\ [](/\ reminders \subseteq HandledRoundIds
          /\ \A round_id \in HandledRoundIds :
                 (IF round_id \in reminders THEN 1 ELSE 0) + RepliesTo(round_id) = 1
          /\ \A m \in BagToSet(replies) :
                 /\ m.type \in {"Hold", "Passivate"}
                 /\ m.agentName = RA_Packer
                 /\ m.roundId \in HandledRoundIds)
    /\ [][/\ ticks' # ticks =>
                /\ reminders' = reminders \cup {UniqueRoundId(ticks', RA_Packer)}
                /\ replies' = replies
          /\ reminders' \subseteq reminders /\ reminders' # reminders =>
                /\ Cardinality(reminders \ reminders') = 1
                /\ BagCardinality(replies') = BagCardinality(replies) + 1]_vars

\* Three TimeUpdates were handled and answered, by Hold and by Passivate, and
\* no Reminder is left.
C19_Witness ==
    /\ ticks = 3
    /\ reminders = {}
    /\ BagCardinality(replies) = 3
    /\ \E h, p \in BagToSet(replies) : h.type = "Hold" /\ p.type = "Passivate"

\* The reply the claim expects for the Reminder round_id in the current state
ExpectedReply(round_id) ==
    IF current_task # None
    THEN [type |-> "Hold", roundId |-> round_id, agentName |-> RA_Packer,
          nextTime |-> current_task.completion_time]
    ELSE [type |-> "Passivate", roundId |-> round_id, agentName |-> RA_Packer]

\* C20: the step that handles a Reminder adds exactly one reply: a Hold with
\* next_time equal to the completion_time of the task in progress if there is
\* one at that moment, a Passivate if the agent is idle; and it changes
\* neither the task nor the queue nor the clock.
C20_ReplyKindFollowsState ==
    [][\A round_id \in reminders \ reminders' :
           /\ replies' = replies (+) SetToBag({ExpectedReply(round_id)})
           /\ UNCHANGED <<current_task, task_queue, current_virtual_time>>]_vars

\* The agent answered the first TimeUpdate idle with Passivate and, a task
\* having been started by the second, that one with Hold until the
\* completion time of the task, which is still in progress.
C20_Witness ==
    /\ current_task # None
    /\ reminders = {}
    /\ [type |-> "Passivate", roundId |-> UniqueRoundId(1, RA_Packer),
         agentName |-> RA_Packer] \in BagToSet(replies)
    /\ [type |-> "Hold", roundId |-> UniqueRoundId(2, RA_Packer),
         agentName |-> RA_Packer,
         nextTime |-> current_task.completion_time] \in BagToSet(replies)

\* The Passivate replies that the step adds to the agent's outbox
NewPassivates ==
    {m \in BagToSet(replies') :
        m.type = "Passivate" /\ CopiesIn(m, replies') > CopiesIn(m, replies)}

\* C21: whenever the agent replies Passivate it has no work pending: its task
\* queue is empty and no task is in progress, also when a GiveTask was
\* delivered between the TimeUpdate and the Reminder of the round.
C21_PassivateMeansNoWork ==
    [][NewPassivates # {} => task_queue = <<>> /\ current_task = None]_vars

\* ================================== claims about the two processes together

\* C11: the values of now that the Resource Agent adopts as its current
\* virtual time from successive TimeUpdates never decrease, whatever the
\* interleaving of broadcasts, replies and round timeouts.
C11_AgentClockMonotonic == [][current_virtual_time' >= current_virtual_time]_vars

\* The Resource Agent adopted a later time in round 2 after it had been sent
\* an earlier one in round 1.
C11_Witness ==
    /\ current_virtual_time > 0
    /\ \E tu \in delivered : ParseRoundId(tu.roundId).val = 1 /\ tu.now = 0
    /\ \E tu \in delivered : ParseRoundId(tu.roundId).val >= 2
                                /\ tu.now = current_virtual_time

\* The ids of the tasks accepted into the queue, and of those with a
\* CompleteTask sent to the principal
AcceptedTaskIds == {EventIds("TASK_QUEUED")[i] : i \in 1..Len(EventIds("TASK_QUEUED"))}
CompletedTaskIds == {completions[i].taskID : i \in 1..Len(completions)}
WaitingTaskIds == {task_queue[i].task_id : i \in 1..Len(task_queue)}
PendingTaskIds == AcceptedTaskIds \ CompletedTaskIds

C26_ToleratesDuplicateTimeUpdates ==
    /\ [][current_virtual_time' >= current_virtual_time]_vars
    /\ [](\A i, j \in 1..Len(completions) :
              completions[i].taskID = completions[j].taskID => i = j)

\* ------------------------------------------- claims about the pool of agents

\* The GiveTasks number first..last that went to the agent ra
Received(ra, first, last) ==
    Cardinality({n \in first..last : give_tasks[n].target = ra})

\* C28: over any N consecutive GiveTasks dispatched to a pool of size k with
\* strategy round_robin, each agent of the pool receives floor(N/k) or
\* ceil(N/k) of them, and the n-th GiveTask of the run goes to the agent at
\* index (n - 1) mod k of the pool.
C28_RoundRobinFairness ==
    strategy = "round_robin" =>
        LET k == Len(resource_pool)
        IN  /\ \A first \in 1..Len(give_tasks) : \A last \in first..Len(give_tasks) :
                   LET N == last - first + 1
                   IN  \A ra \in SystemIds :
                           Received(ra, first, last) \in {N \div k, (N + k - 1) \div k}
            /\ \A n \in 1..Len(give_tasks) :
                   give_tasks[n].target = resource_pool[((n - 1) % k) + 1]

\* Three GiveTasks have gone round a pool of two.
C28_Witness ==
    /\ strategy = "round_robin"
    /\ Len(resource_pool) = 2
    /\ Len(give_tasks) = 3
    /\ Received(resource_pool[1], 1, 3) = 2
    /\ Received(resource_pool[2], 1, 3) = 1

\* The tasks whose CompleteTask an agent of the pool has sent
SentCompleteTasks == {d.task_id : d \in pool_done}

\* The messages the deferred handler was invoked with, by task id
OriginalMessage(task_id) ==
    give_tasks[CHOOSE n \in 1..Len(give_tasks) : give_tasks[n].taskID = task_id].msg

\* C29: the original body of a deferred handler runs exactly once per
\* completed task, with the original message: a body runs only when a
\* CompleteTask of a suspended task arrives, a task is either still suspended
\* or has run once, and a CompleteTask of a task that has run or of an unknown
\* task runs nothing.
C29_ExactlyOnceResumption ==
    /\ [](\A i \in 1..Len(resumed) : \A j \in 1..Len(resumed) :
              resumed[i].seq = resumed[j].seq => i = j)
    /\ [](\A i \in 1..Len(resumed) :
              /\ resumed[i].seq \in SentCompleteTasks
              /\ resumed[i] = OriginalMessage(resumed[i].seq)
              /\ resumed[i].handler = DeferredHandler)
    /\ [](\A task_id \in 1..inbound :
              (task_id \in DOMAIN suspended)
                  # (\E i \in 1..Len(resumed) : resumed[i].seq = task_id))
    /\ [][resumed' # resumed =>
              \E task_id \in DOMAIN suspended \cap SentCompleteTasks :
                  /\ resumed' = Append(resumed, OriginalMessage(task_id))
                  /\ task_id \notin DOMAIN suspended']_vars

\* A handler has run for a completed task whose CompleteTask can arrive
\* again, while another invocation is still suspended.
C29_Witness ==
    /\ Len(resumed) = 1
    /\ resumed[1].seq \in SentCompleteTasks
    /\ resumed[1].seq \notin DOMAIN suspended
    /\ DOMAIN suspended # {}

\* Two messages arrived back to back at a principal with a pool of two in
\* round_robin: their tasks were started at the same TimeUpdate.
BackToBack ==
    /\ strategy = "round_robin"
    /\ Len(resource_pool) = 2
    /\ \E d1 \in pool_done : \E d2 \in pool_done :
           d1.task_id = 1 /\ d2.task_id = 2 /\ d1.started = d2.started

\* The GiveTasks of the first two messages go to RA#1 then RA#2.
FirstThenSecond ==
    \A n \in 1..Len(give_tasks) :
        n <= 2 => give_tasks[n].target = resource_pool[n]

\* The handlers that have run were invoked with different messages, each
\* for a task that an agent of the pool has completed.
ResumedOnce ==
    \A i \in 1..Len(resumed) :
        /\ resumed[i].seq \in SentCompleteTasks
        /\ \A j \in 1..Len(resumed) : resumed[i] = resumed[j] => i = j

IsNumberText(n) ==
    /\ n # <<>>
    /\ n[1] \in Digits
    /\ \A i \in 1..Len(n) : n[i] \in Digits \cup {"."}
    /\ Cardinality({i \in 1..Len(n) : n[i] = "."}) <= 1

\* A number, blanks and one of the units d, h, m, s or none
IsQuantityText(t) ==
    \E i \in 1..Len(t) :
        /\ IsNumberText(SubSeq(t, 1, i))
        /\ \E j \in i..Len(t) :
               /\ \A k \in (i + 1)..j : t[k] = Blank
               /\ \/ j = Len(t)
                  \/ j + 1 = Len(t) /\ t[j + 1] \in UnitChars

\* The places of the plus-minus sign in a text
SignsOf(t) == {i \in 1..Len(t) : t[i] = PlusMinus}

BeforeSign(t) == Strip(SubSeq(t, 1, Min(SignsOf(t)) - 1))
AfterSign(t) == Strip(SubSeq(t, Min(SignsOf(t)) + 1, Len(t)))

\* A text of the shape mean ± stddev
IsNormalText(t) ==
    /\ Cardinality(SignsOf(t)) = 1
    /\ IsQuantityText(BeforeSign(t))
    /\ IsQuantityText(AfterSign(t))

\* The number and the unit a quantity is written with
NumberOf(t) == SelectSeq(t, LAMBDA c : c \in Digits \cup {"."})
UnitOf(t) == IF t[Len(t)] \in UnitChars THEN t[Len(t)] ELSE "d"

SecondsPer(unit) ==
    CASE unit = "d" -> 24 * 60 * 60
      [] unit = "h" -> 60 * 60
      [] unit = "m" -> 60
      [] unit = "s" -> 1

\* A quantity in seconds, times 10^shift, as a natural number
ScaledSeconds(t, shift) ==
    BigMulSmall(BigMulSmall(BigFromInt(DigitsValue(SelectSeq(t, LAMBDA c : c \in Digits))),
                            SecondsPer(UnitOf(t)), 0), 10^shift, 0)

DecimalPlaces(t) ==
    LET n == NumberOf(t)
        points == {i \in 1..Len(n) : n[i] = "."}
    IN  IF points = {} THEN 0 ELSE Len(n) - Min(points)

\* mean - 2 * stddev >= 0 for a text of the shape mean ± stddev
WithinTwoSigma(t) ==
    LET mean == BeforeSign(t)
        std == AfterSign(t)
    IN  ~BigLess(BigNorm(ScaledSeconds(mean, DecimalPlaces(std))),
                 BigNorm(BigMulSmall(ScaledSeconds(std, DecimalPlaces(mean)), 2, 0)))

\* C31: parse_duration accepts a mean ± stddev text exactly when
\* mean - 2 * stddev >= 0 with both taken in days (units d, h, m, s, default
\* d) and returns (mean_days, std_days); a text of the shape number and unit
\* returns (mean_days, 0); every other text is a parse error.
C31_DurationParsingInvariant ==
    \A i \in 1..Len(validation.calls) :
        LET t == Strip(validation.calls[i].duration_str)
            result == validation.calls[i].result
        IN  IF IsNormalText(t)
            THEN /\ result.ok <=> WithinTwoSigma(t)
                 /\ result.ok =>
                        /\ result.mean_days
                              = InDays(NumberOf(BeforeSign(t)), UnitOf(BeforeSign(t)))
                        /\ result.std_days
                              = InDays(NumberOf(AfterSign(t)), UnitOf(AfterSign(t)))
            ELSE IF IsQuantityText(t)
            THEN /\ result.ok
                 /\ result.mean_days = InDays(NumberOf(t), UnitOf(t))
                 /\ result.std_days = Zero
            ELSE ~result.ok

\* The mean duration, in days, that an entry of the task settings asks for
\* is greater than zero: handle_task of the Resource Agent drops a task
\* whose duration is not (IsPositive).
MeanIsPositive(task_setting, calls) ==
    LET duration == task_setting.items[2]
    IN  IF duration.type = "str"
        THEN \E i \in 1..Len(calls) :
                 /\ calls[i].duration_str = duration.text
                 /\ FloatLess(Zero, calls[i].result.mean_days)
        ELSE IsPositive(duration.number)

\* C37: every entry of TASK_SETTINGS that validate_task_settings accepts has
\* a mean duration greater than zero, whether the duration is a number, a
\* duration string or a (mean, std) pair.
C37_AcceptedDurationIsPositive ==
    (validation.done /\ validation.is_valid) =>
        \A i \in 1..Len(task_settings.items) :
            MeanIsPositive(task_settings.items[i], validation.calls)

\* --------------------------------- further claims about the Resource Agent

\* The agent directory has no endpoint for the principal of the agent
PrincipalUnresolved == PrincipalName(RA_Packer) \notin agent_config

\* C32: when the endpoint of the principal cannot be resolved, no
\* CompleteTask is ever sent; the TimeUpdate at which a task is due still
\* leaves the agent idle or, with a task queued, executing the head of the
\* queue, and is answered like any other: its Reminder is scheduled, and
\* every handled TimeUpdate has its Reminder in flight or exactly one reply.
C32_CompletionFailureIsLocal ==
    /\ [](PrincipalUnresolved =>
              /\ completions = <<>>
              /\ \A round_id \in HandledRoundIds :
                     (IF round_id \in reminders THEN 1 ELSE 0) + RepliesTo(round_id) = 1)
    /\ [][(/\ PrincipalUnresolved
           /\ ticks' # ticks
           /\ TaskDue(current_task, current_virtual_time')) =>
              /\ completions' = completions
              /\ IF task_queue = <<>>
                 THEN current_task' = None /\ task_queue' = <<>>
                 ELSE /\ current_task' # None
                      /\ current_task'.task_id = Head(task_queue).task_id
                      /\ task_queue' = Tail(task_queue)
              /\ UniqueRoundId(ticks', RA_Packer) \in reminders']_vars

\* Without an endpoint for the principal, a task came due, the next task was
\* started at the same TimeUpdate, and the TimeUpdates were answered.
C32_Witness ==
    /\ PrincipalUnresolved
    /\ \E i \in 1..Len(ra_log) : \E j \in 1..Len(ra_log) :
           /\ i < j
           /\ ra_log[i].event = "COMPLETE_ERROR"
           /\ ra_log[j].event = "TASK_STARTED"
           /\ ra_log[i].virtual_time = ra_log[j].virtual_time
    /\ current_task # None
    /\ reminders = {}
    /\ BagCardinality(replies) = ticks

\* The log event of complete_task for the task
IsCompletionOf(event, task_id) ==
    event.event \in {"TASK_COMPLETED", "COMPLETE_ERROR"} /\ event.task_id = task_id

\* The log event of the start of the task
IsStartOf(event, task_id) == event.event = "TASK_STARTED" /\ event.task_id = task_id

\* The CompleteTask of complete_task(task_info)
CompleteTaskOf(task_info) ==
    [type |-> "CompleteTask", taskID |-> task_info.task_id, id |-> task_info.id,
     taskType |-> task_info.task_type, dest |-> PrincipalName(RA_Packer)]

SentHolds == {m \in BagToSet(replies) : m.type = "Hold"}

\* The value of now the TimeService sent the Resource Agent in the round
NowOf(round_id) == {tu.now : tu \in {m \in sent : m.roundId = round_id}}

Positions(kind, task_id) ==
    {i \in 1..Len(ra_log) : ra_log[i].event = kind /\ ra_log[i].task_id = task_id}

\* C35: for every task handed to the agent, TASK_QUEUED, TASK_STARTED and
\* TASK_COMPLETED are each logged at most once, a TASK_STARTED only after the
\* TASK_QUEUED of the task and a TASK_COMPLETED only after its TASK_STARTED.
C35_TaskEventOrder ==
    \A task_id \in 1..given :
        /\ \A kind \in {"TASK_QUEUED", "TASK_STARTED", "TASK_COMPLETED"} :
               Cardinality(Positions(kind, task_id)) <= 1
        /\ \A s \in Positions("TASK_STARTED", task_id) :
               \E q \in Positions("TASK_QUEUED", task_id) : q < s
        /\ \A c \in Positions("TASK_COMPLETED", task_id) :
               \E s \in Positions("TASK_STARTED", task_id) : s < c

\* Two accepted tasks have gone through all three events, the second queued
\* while the first was in progress.
C35_Witness ==
    /\ \A task_id \in 1..2 :
           \A kind \in {"TASK_QUEUED", "TASK_STARTED", "TASK_COMPLETED"} :
               Positions(kind, task_id) # {}
    /\ \E s \in Positions("TASK_STARTED", 1) : \E q \in Positions("TASK_QUEUED", 2) :
           \E c \in Positions("TASK_COMPLETED", 1) : s < q /\ q < c

\* ------------------------------------------- claims about both processes

\* The virtual time and the duration the log has for the start of the task
StartedAt(task_id) ==
    {ra_log[i].virtual_time : i \in Positions("TASK_STARTED", task_id)}
QueuedDuration(task_id) ==
    {ra_log[i].detail : i \in Positions("TASK_QUEUED", task_id)}

TasksOf(run_id) == {task \in tasks : task.run_id = run_id}

\* C38: when the background execution of a run has finished, by whatever
\* path, the run has no entry in run_port_ranges and none of the ports that
\* were allocated for it is in allocated_ports.
C38_PortsReleasedOnExit ==
    \A task \in tasks :
        task.pc = "done" =>
            /\ task.run_id \notin DOMAIN run_port_ranges
            /\ PortsOf(task.port_allocation) \cap allocated_ports = {}

\* C39: a run has at most one background task, ever; an execute request is
\* accepted only for a configured run and leaves it running before it
\* suspends; a task is created only by an accepted execute request; and no
\* step makes a run configured that was not configured before.
C39_ExecutedAtMostOnce ==
    /\ [](\A run_id \in Runs : Cardinality(TasksOf(run_id)) <= 1)
    /\ [][\A request \in suspended_requests' \ suspended_requests :
              request.kind = "execute_run" =>
                  /\ runs_store[request.run_id] = "configured"
                  /\ runs_store'[request.run_id] = "running"]_vars
    /\ [][\A task \in tasks' :
              task.pc = "created" /\ task \notin tasks =>
                  \E request \in suspended_requests \ suspended_requests' :
                      /\ request.kind = "execute_run"
                      /\ request.run_id = task.run_id
                      /\ request.id = task.id]_vars
    /\ [][\A run_id \in Runs :
              runs_store'[run_id] = "configured" => runs_store[run_id] = "configured"]_vars

\* A run was executed on the first request and a second request for the same
\* run, made while the first was suspended or later, was refused.
C39_Witness ==
    \E run_id \in Runs :
        /\ Cardinality(TasksOf(run_id)) = 1
        /\ Response(1, "execute_run", run_id, 200) \in http_responses
        /\ \E kind \in {"execute_run", "update_run_config"} :
               Response(2, kind, run_id, 400) \in http_responses

====
